---- MODULE Spec2Model ----
(***************************************************************************)
(* Model of the month-partitioned ledger store of finance_proxy            *)
(* (src/finance_proxy/core/ledger.py) and of its commit endpoint           *)
(* (src/finance_proxy/main.py).                                            *)
(*                                                                         *)
(* Text is modelled as a sequence of one-character strings, so that the    *)
(* normalisers (strip, whitespace collapse, lower-casing, decimal and date *)
(* parsing) are computed character by character as the code computes them. *)
(* The external tabular store is modelled by the five operations the code  *)
(* calls on it; a read of range A:D returns the first four columns.        *)
(***************************************************************************)
EXTENDS Integers, Sequences, FiniteSets, TLC

VARIABLES tabs, cells, last

vars == <<tabs, cells, last>>

(***************************************************************************)
(* Text primitives (Python str).                                           *)
(***************************************************************************)
None == <<"<None>">>

UpperChars == <<"A","B","C","D","E","F","G","H","I","J","K","L","M",
                "N","O","P","Q","R","S","T","U","V","W","X","Y","Z">>

LowerChars == <<"a","b","c","d","e","f","g","h","i","j","k","l","m",
                "n","o","p","q","r","s","t","u","v","w","x","y","z">>

DigitChars == <<"0","1","2","3","4","5","6","7","8","9">>

IsSpace(c) == c \in {" ", "\t", "\n"}

Digits == {DigitChars[i] : i \in 1..10}

DigitValues == [c \in Digits |-> (CHOOSE i \in 1..10 : DigitChars[i] = c) - 1]

LowerOf == [c \in {UpperChars[i] : i \in 1..26} |->
                LowerChars[CHOOSE i \in 1..26 : UpperChars[i] = c]]

IsDigit(c) == c \in Digits

DigitVal(c) == DigitValues[c]

LowerChar(c) == IF c \in DOMAIN LowerOf THEN LowerOf[c] ELSE c

Lower(s) == [i \in 1..Len(s) |-> LowerChar(s[i])]

SetMin(S) == CHOOSE x \in S : \A y \in S : x <= y

SetMax(S) == CHOOSE x \in S : \A y \in S : x >= y

Str(value) == IF value = None THEN <<"N","o","n","e">> ELSE value

Strip(s) ==
    LET idx == {i \in 1..Len(s) : ~IsSpace(s[i])}
    IN  IF idx = {} THEN <<>> ELSE SubSeq(s, SetMin(idx), SetMax(idx))

\* " ".join(s.split()): whitespace runs become one space, none at the ends.
JoinSplit(s) ==
    LET F[i \in 0..Len(s)] ==
            IF i = 0 THEN <<>>
            ELSE LET prev == F[i-1]
                 IN  IF IsSpace(s[i]) THEN prev
                     ELSE IF i > 1 /\ IsSpace(s[i-1]) /\ prev # <<>>
                          THEN prev \o <<" ", s[i]>>
                          ELSE Append(prev, s[i])
    IN  F[Len(s)]

Remove(s, c) ==
    LET F[i \in 0..Len(s)] ==
            IF i = 0 THEN <<>>
            ELSE LET prev == F[i-1]
                 IN  IF s[i] = c THEN prev ELSE Append(prev, s[i])
    IN  F[Len(s)]

Replace(s, c, d) == [i \in 1..Len(s) |-> IF s[i] = c THEN d ELSE s[i]]

Contains(s, c) == \E i \in 1..Len(s) : s[i] = c

SplitOn(s, sep) ==
    LET F[i \in 0..Len(s)] ==
            IF i = 0 THEN << <<>> >>
            ELSE LET prev == F[i-1]
                 IN  IF s[i] = sep THEN Append(prev, <<>>)
                     ELSE [prev EXCEPT ![Len(prev)] = Append(@, s[i])]
    IN  F[Len(s)]

AllDigits(t) == Len(t) > 0 /\ \A i \in 1..Len(t) : IsDigit(t[i])

NumVal(t) ==
    LET F[i \in 0..Len(t)] ==
            IF i = 0 THEN 0 ELSE 10 * F[i-1] + DigitVal(t[i])
    IN  F[Len(t)]

Pow10(n) ==
    LET F[i \in 0..n] == IF i = 0 THEN 1 ELSE 10 * F[i-1]
    IN  F[n]

Pad2(n) == <<DigitChars[(n \div 10) + 1], DigitChars[(n % 10) + 1]>>

Pad4(n) == Pad2(n \div 100) \o Pad2(n % 100)

(***************************************************************************)
(* ledger.py: _normalize_text                                              *)
(***************************************************************************)
NormalizeText(value) == IF value = None THEN <<>> ELSE JoinSplit(Strip(value))

(***************************************************************************)
(* ledger.py: _parse_date, _normalize_date, get_monthly_sheet_name.        *)
(* A parsed date is <<year, month, day>>; NoDate is Python's None.         *)
(***************************************************************************)
NoDate == <<>>

\* datetime.now() of the run, as a calendar date.
Today == <<2024, 2, 15>>

IsLeap(y) == (y % 4 = 0 /\ y % 100 # 0) \/ y % 400 = 0

DaysIn(y, m) ==
    IF m = 2 THEN (IF IsLeap(y) THEN 29 ELSE 28)
    ELSE IF m \in {4, 6, 9, 11} THEN 30 ELSE 31

ValidYMD(y, m, d) == y >= 1 /\ m \in 1..12 /\ d >= 1 /\ d <= DaysIn(y, m)

\* datetime.fromisoformat on a date-only string: YYYY-MM-DD exactly.
FromIsoFormat(s) ==
    IF /\ Len(s) = 10
       /\ s[5] = "-" /\ s[8] = "-"
       /\ \A i \in {1, 2, 3, 4, 6, 7, 9, 10} : IsDigit(s[i])
    THEN LET y == NumVal(SubSeq(s, 1, 4))
             m == NumVal(SubSeq(s, 6, 7))
             d == NumVal(SubSeq(s, 9, 10))
         IN  IF ValidYMD(y, m, d) THEN <<y, m, d>> ELSE NoDate
    ELSE NoDate

\* strptime directives: %Y is four digits, %m and %d one or two digits.
IsYearTok(t) == Len(t) = 4 /\ AllDigits(t)

IsShortTok(t) == Len(t) \in {1, 2} /\ AllDigits(t)

\* datetime.strptime(s, fmt) for the three-field formats of _DATE_FORMATS:
\* sep is the separator, order names the fields ("ymd", "dmy" or "mdy").
StrpTime(s, sep, order) ==
    LET t == SplitOn(s, sep)
        yi == IF order = "ymd" THEN 1 ELSE 3
        mi == IF order = "ymd" THEN 2 ELSE IF order = "dmy" THEN 2 ELSE 1
        di == IF order = "ymd" THEN 3 ELSE IF order = "dmy" THEN 1 ELSE 2
    IN  IF /\ Len(t) = 3
           /\ IsYearTok(t[yi]) /\ IsShortTok(t[mi]) /\ IsShortTok(t[di])
        THEN LET y == NumVal(t[yi])
                 m == NumVal(t[mi])
                 d == NumVal(t[di])
             IN  IF ValidYMD(y, m, d) THEN <<y, m, d>> ELSE NoDate
        ELSE NoDate

\* _DATE_FORMATS, in the order the code tries them.
DATE_FORMATS == << <<"-", "ymd">>, <<"/", "ymd">>, <<"/", "dmy">>,
                   <<"/", "mdy">>, <<"-", "dmy">>, <<"-", "mdy">> >>

ParseDate(value) ==
    IF value = None THEN NoDate
    ELSE LET s == Strip(Str(value))
             hits == {i \in 1..Len(DATE_FORMATS) :
                         StrpTime(s, DATE_FORMATS[i][1], DATE_FORMATS[i][2]) # NoDate}
             iso  == FromIsoFormat(s)
         IN  IF s = <<>> THEN NoDate
             ELSE IF iso # NoDate THEN iso
             ELSE IF hits = {} THEN NoDate
             ELSE StrpTime(s, DATE_FORMATS[SetMin(hits)][1], DATE_FORMATS[SetMin(hits)][2])

IsoFormat(d) == Pad4(d[1]) \o <<"-">> \o Pad2(d[2]) \o <<"-">> \o Pad2(d[3])

NormalizeDate(value) ==
    LET parsed == ParseDate(value)
    IN  IF parsed # NoDate THEN IsoFormat(parsed)
        ELSE IF value = None THEN <<>>
        ELSE Strip(Str(value))

\* strftime("%Y-%m") of the parsed date, or of now when it does not parse.
GetMonthlySheetName(when) ==
    LET parsed == ParseDate(when)
        stamp  == IF parsed # NoDate THEN parsed ELSE Today
    IN  Pad4(stamp[1]) \o <<"-">> \o Pad2(stamp[2])

(***************************************************************************)
(* ledger.py: _normalize_amount, _amounts_match.                           *)
(* A Decimal quantized to 0.01 is its number of hundredths; NoAmount is    *)
(* None (the value was None, blank, or Decimal() rejected the text).       *)
(***************************************************************************)
NoAmount == <<>>

\* Decimal("nan").quantize(Decimal("0.01")): Decimal() reads nan, in any
\* case and with a sign or without, as a quiet NaN, quantize() hands it
\* back, and it equals no Decimal, itself included.
NaNAmount == <<0, 0>>

IsNaNText(s) ==
    LET body == IF Len(s) > 0 /\ s[1] \in {"-", "+"}
                THEN SubSeq(s, 2, Len(s)) ELSE s
    IN  Lower(body) = <<"n","a","n">>

\* Decimal(s).quantize(Decimal("0.01")) for s = [sign] digits [. digits],
\* rounding half to even; <<>> when Decimal(s) raises InvalidOperation.
DecimalQuantize(s) ==
    LET signed == Len(s) > 0 /\ s[1] \in {"-", "+"}
        body   == IF signed THEN SubSeq(s, 2, Len(s)) ELSE s
        parts  == SplitOn(body, ".")
        ip     == parts[1]
        fp     == IF Len(parts) = 2 THEN parts[2] ELSE <<>>
        wellFormed ==
            /\ Len(parts) \in {1, 2}
            /\ \A i \in 1..Len(ip) : IsDigit(ip[i])
            /\ \A i \in 1..Len(fp) : IsDigit(fp[i])
            /\ Len(ip) + Len(fp) > 0
        f2     == SubSeq(fp \o <<"0", "0">>, 1, 2)
        rest   == IF Len(fp) > 2 THEN SubSeq(fp, 3, Len(fp)) ELSE <<>>
        trunc  == 100 * NumVal(ip) + NumVal(f2)
        half   == IF rest = <<>> THEN 1 ELSE 5 * Pow10(Len(rest) - 1)
        r      == NumVal(rest)
        up     == rest # <<>> /\ (r > half \/ (r = half /\ trunc % 2 = 1))
        mag    == IF up THEN trunc + 1 ELSE trunc
    IN  IF ~wellFormed THEN NoAmount
        ELSE IF signed /\ s[1] = "-" THEN <<0 - mag>> ELSE <<mag>>

NormalizeAmount(value) ==
    IF value = None THEN NoAmount
    ELSE LET s0 == Strip(Str(value))
             s1 == Remove(s0, " ")
             s2 == IF Contains(s1, ",") /\ Contains(s1, ".")
                   THEN Remove(s1, ",")
                   ELSE Replace(s1, ",", ".")
         IN  IF s0 = <<>> THEN NoAmount
             ELSE IF IsNaNText(s2) THEN NaNAmount
             ELSE DecimalQuantize(s2)

AmountsMatch(left, right) ==
    LET left_norm  == NormalizeAmount(left)
        right_norm == NormalizeAmount(right)
    IN  IF left_norm # NoAmount /\ right_norm # NoAmount
        THEN left_norm = right_norm /\ left_norm # NaNAmount
        ELSE Lower(NormalizeText(left)) = Lower(NormalizeText(right))

(***************************************************************************)
(* ledger.py: DEFAULT_HEADERS, _row_is_header.                             *)
(***************************************************************************)
DEFAULT_HEADERS ==
    << <<"D","a","t","e">>,
       <<"D","e","s","c","r","i","p","t","i","o","n">>,
       <<"A","m","o","u","n","t">>,
       <<"C","a","t","e","g","o","r","y">>,
       <<"M","a","c","h","i","n","e"," ","P","i","l","l","a","r">>,
       <<"I","n","t","e","g","r","i","t","y"," ","F","i","l","t","e","r">>,
       <<"R","o","o","t"," ","T","r","i","g","g","e","r">>,
       <<"N","o","t","e","s">> >>

\* The number of header cells _row_is_header requires and compares.
HeaderWidth == 8

RowIsHeader(row) ==
    IF Len(row) < HeaderWidth THEN FALSE
    ELSE \A i \in 1..HeaderWidth :
            Lower(NormalizeText(row[i])) = Lower(NormalizeText(DEFAULT_HEADERS[i]))

(***************************************************************************)
(* The external tabular store: spreadsheets().get, batchUpdate(addSheet),  *)
(* values().update, values().get and values().append as the code calls    *)
(* them.  A store is [tabs, cells]: the tab titles, and the rows of each   *)
(* tab, every row a sequence of cells, an empty cell being <<>>.           *)
(***************************************************************************)
SheetNames(st) == st.tabs

AddSheet(st, title) ==
    [tabs  |-> st.tabs \cup {title},
     cells |-> [t \in st.tabs \cup {title} |->
                    IF t \in st.tabs THEN st.cells[t] ELSE <<>>]]

\* values().update at range '<title>'!A1: the row is written at row 1.
UpdateA1(st, title, row) ==
    [st EXCEPT !.cells[title] =
        IF @ = <<>> THEN <<row>> ELSE [@ EXCEPT ![1] = row]]

\* The append as it would be if it were values().update at its range, A1.
AppendRowAtA1(st, title, row) == UpdateA1(st, title, row)

\* values().append at range '<title>'!A1: the row goes below the last row.
AppendRow(st, title, row) == [st EXCEPT !.cells[title] = Append(@, row)]

\* A returned row stops at its last non-empty cell.
TrimRow(row) ==
    LET idx == {i \in 1..Len(row) : row[i] # <<>>}
    IN  IF idx = {} THEN <<>> ELSE SubSeq(row, 1, SetMax(idx))

\* The number of columns of range A:D, the range of both reads.
ReadWidth == 4

\* values().get at range '<title>'!A:D: the first four columns of every row
\* up to the last non-empty one.
GetValues(st, title) ==
    LET rows  == st.cells[title]
        cut   == [i \in 1..Len(rows) |->
                    TrimRow(SubSeq(rows[i], 1,
                        IF Len(rows[i]) < ReadWidth THEN Len(rows[i]) ELSE ReadWidth))]
        idx   == {i \in 1..Len(cut) : cut[i] # <<>>}
    IN  IF idx = {} THEN <<>> ELSE SubSeq(cut, 1, SetMax(idx))

(***************************************************************************)
(* One run of a handler: the store it works on, the number of store calls  *)
(* that still succeed before one raises (fuel; NoFailure: none raises),    *)
(* and the store calls made so far, each <<item, call, outcome>>.          *)
(***************************************************************************)
NoFailure == 0 - 1

NewRun(st, fuel) == [st |-> st, fuel |-> fuel, trace |-> <<>>, failed |-> FALSE]

\* Body(v) with v evaluated once: the local variable of a handler.
Bind(v, Body(_)) == CHOOSE r \in {Body(x) : x \in {v}} : TRUE

\* The store refuses a second tab of one title, and any access of the
\* values of a tab that does not exist.
Accepts(st, call, title) ==
    CASE call = "get"      -> TRUE
      [] call = "addSheet" -> title \notin st.tabs
      [] OTHER             -> title \in st.tabs

Effect(st, call, title, row) ==
    CASE call = "addSheet"      -> AddSheet(st, title)
      [] call = "update"        -> UpdateA1(st, title, row)
      [] call = "values.append" -> AppendRow(st, title, row)
      [] OTHER                  -> st

\* One store call (.execute()): it raises when the store fails (fuel
\* spent) or refuses the request; an exception ends the handler.
Step(ctx, item, call, title, row) ==
    Bind(ctx, LAMBDA c :
        IF c.failed THEN c
        ELSE IF c.fuel = 0 \/ ~Accepts(c.st, call, title)
             THEN [c EXCEPT !.failed = TRUE,
                            !.trace = Append(@, <<item, call, "raised">>)]
             ELSE [st     |-> Effect(c.st, call, title, row),
                   fuel   |-> IF c.fuel > 0 THEN c.fuel - 1 ELSE c.fuel,
                   trace  |-> Append(c.trace, <<item, call, "ok">>),
                   failed |-> FALSE])

(***************************************************************************)
(* ledger.py: SheetsLedgerStore._ensure_month_sheet                        *)
(***************************************************************************)
\* _ensure_month_sheet as it would be if it wrote the header row whether
\* or not the tab was there.
EnsureMonthSheetRewritesHeader(ctx, item, month_name, sheet_names) ==
    IF month_name \in sheet_names
    THEN [ctx |-> Step(ctx, item, "update", month_name, DEFAULT_HEADERS),
          created |-> FALSE]
    ELSE Bind(Step(Step(Step(ctx, item, "addSheet", month_name, <<>>),
                        item, "update", month_name, DEFAULT_HEADERS),
                   item, "setDataValidation", month_name, <<>>),
              LAMBDA c : [ctx |-> c, created |-> ~c.failed])

EnsureMonthSheet(ctx, item, month_name, sheet_names) ==
    IF month_name \in sheet_names
    THEN [ctx |-> ctx, created |-> FALSE]
    ELSE Bind(Step(Step(Step(ctx, item, "addSheet", month_name, <<>>),
                        item, "update", month_name, DEFAULT_HEADERS),
                   item, "setDataValidation", month_name, <<>>),
              LAMBDA c : [ctx |-> c, created |-> ~c.failed])

(***************************************************************************)
(* ledger.py: SheetsLedgerStore.is_duplicate, on the values it has read.   *)
(***************************************************************************)
IsDuplicate(values, date_value, amount, description) ==
    LET start_index == IF values # <<>> /\ RowIsHeader(values[1]) THEN 1 ELSE 0
        target_date == NormalizeDate(date_value)
        target_desc == NormalizeText(description)
    IN  \E i \in (start_index + 1)..Len(values) :
            LET row        == values[i]
                row_date   == IF Len(row) > 0 THEN NormalizeDate(row[1]) ELSE <<>>
                row_desc   == IF Len(row) > 1 THEN NormalizeText(row[2]) ELSE <<>>
                row_amount == IF Len(row) > 3 THEN row[4] ELSE <<>>
            IN  /\ row_date = target_date
                /\ row_desc = target_desc
                /\ AmountsMatch(row_amount, amount)

(***************************************************************************)
(* ledger.py: SheetsLedgerStore.append_transaction.  tx is the call's      *)
(* arguments [date, description, amount, category]; the four auxiliary     *)
(* columns are left empty, as every caller of the repository leaves them.  *)
(* The result holds the run, the returned status ("error": an exception    *)
(* left the handler) and what the handler read and decided on the way.     *)
(***************************************************************************)
sUnknown == <<"U","n","k","n","o","w","n">>

sUncategorized == <<"U","n","c","a","t","e","g","o","r","i","z","e","d">>

OrDefault(value, default) ==
    LET s == Strip(IF value = None THEN <<>> ELSE value)
    IN  IF s = <<>> THEN default ELSE s

\* "if not created and self.is_duplicate(...)": whether is_duplicate is
\* called at all.  ChecksAlways is the handler without its "not created".
ChecksAlways(created) == TRUE

ChecksDuplicate(created) == ~created

AppendTransaction(ctx, item, tx) ==
    LET description == OrDefault(tx.description, sUnknown)
        category    == OrDefault(tx.category, sUncategorized)
        normalized  == NormalizeDate(tx.date)
        date_value  == IF normalized # <<>> THEN normalized ELSE IsoFormat(Today)
        row         == <<date_value, description, Str(tx.amount), category,
                         <<>>, <<>>, <<>>, <<>> >>
    IN
    Bind(Step(ctx, item, "get", <<>>, <<>>), LAMBDA c1 :
    Bind(GetMonthlySheetName(date_value), LAMBDA month_name :
    Bind(EnsureMonthSheet(c1, item, month_name, SheetNames(c1.st)), LAMBDA ens :
    Bind(~ens.ctx.failed /\ ChecksDuplicate(ens.created), LAMBDA asks :
    Bind(IF asks
         THEN Step(ens.ctx, item, "values.get", month_name, <<>>)
         ELSE ens.ctx, LAMBDA c3 :
    Bind(asks /\ ~c3.failed, LAMBDA checked :
    Bind(IF checked THEN GetValues(c3.st, month_name) ELSE <<>>, LAMBDA seen :
    Bind(checked /\ IsDuplicate(seen, date_value, tx.amount, description), LAMBDA dup :
    Bind(IF dup THEN c3 ELSE Step(c3, item, "values.append", month_name, row), LAMBDA c4 :
        [ctx     |-> c4,
         status  |-> IF c4.failed THEN "error"
                     ELSE IF dup THEN "duplicate" ELSE "appended",
         month   |-> month_name,
         created |-> ens.created,
         checked |-> checked,
         dup     |-> dup])))))))))

(***************************************************************************)
(* ledger.py: SheetsLedgerStore.append_transactions.  The items are taken  *)
(* in order; an exception of append_transaction leaves the loop and the    *)
(* method, so nothing is returned ("error").                               *)
(***************************************************************************)
Counted(prev, res) ==
    [ctx        |-> res.ctx,
     appended   |-> prev.appended + (IF res.status = "appended" THEN 1 ELSE 0),
     duplicates |-> prev.duplicates + (IF res.status = "duplicate" THEN 1 ELSE 0),
     results    |-> Append(prev.results, res.status)]

\* The loop body as it would be if a duplicate ended the loop.
AppendTransactionsItemStopAtDuplicate(prev, k, item) ==
    IF prev.ctx.failed \/ prev.duplicates > 0 THEN prev
    ELSE Bind(AppendTransaction(prev.ctx, k, item), LAMBDA res :
         IF res.ctx.failed THEN [prev EXCEPT !.ctx = res.ctx]
         ELSE Counted(prev, res))

\* The loop body as it would be if it caught the exception of an item and
\* went on with the next.
AppendTransactionsItemCatching(prev, k, item) ==
    Bind(AppendTransaction(prev.ctx, k, item), LAMBDA res :
         IF res.ctx.failed
         THEN [prev EXCEPT !.ctx = [res.ctx EXCEPT !.failed = FALSE],
                           !.results = Append(@, "error")]
         ELSE Counted(prev, res))

\* One iteration of the loop, item the k-th of the batch; once an
\* exception has left the loop no iteration runs.
AppendTransactionsItem(prev, k, item) ==
    IF prev.ctx.failed THEN prev
    ELSE Bind(AppendTransaction(prev.ctx, k, item), LAMBDA res :
         IF res.ctx.failed THEN [prev EXCEPT !.ctx = res.ctx]
         ELSE Counted(prev, res))

AppendTransactions(st, fuel, transactions) ==
    LET F[k \in 0..Len(transactions)] ==
            IF k = 0
            THEN [ctx |-> NewRun(st, fuel), appended |-> 0, duplicates |-> 0,
                  results |-> <<>>]
            ELSE AppendTransactionsItem(F[k-1], k, transactions[k])
    IN  Bind(F[Len(transactions)], LAMBDA end :
            IF end.ctx.failed
            THEN [ctx |-> end.ctx, status |-> "error",
                  appended |-> None, duplicates |-> None, results |-> None]
            ELSE [ctx |-> end.ctx, status |-> "ok",
                  appended |-> end.appended, duplicates |-> end.duplicates,
                  results |-> end.results])

(***************************************************************************)
(* ledger.py: _month_anchor and SheetsLedgerStore.list_transactions.       *)
(* month and year are integers, 0 when the argument is not given.          *)
(***************************************************************************)
MonthAnchor(month, year, date_value) ==
    IF date_value # None /\ date_value # <<>> THEN date_value
    ELSE IF month # 0 \/ year # 0
         THEN LET y == IF year # 0 THEN year ELSE Today[1]
                  m == IF month # 0 THEN month ELSE Today[2]
              IN  IF ValidYMD(y, m, 1) /\ y <= 9999 THEN IsoFormat(<<y, m, 1>>) ELSE None
         ELSE IsoFormat(Today)

Cell(row, i) == IF Len(row) >= i THEN Strip(Str(row[i])) ELSE <<>>

\* The row id of the i-th (from 0) of the rows below start_index;
\* IndexRowId is the id counted from 0.
IndexRowId(start_index, i) == start_index + i

PhysicalRowId(start_index, i) == start_index + i + 1

\* The loop of list_transactions over the values it has read.
Transactions(values) ==
    LET start_index == IF values # <<>> /\ RowIsHeader(values[1]) THEN 1 ELSE 0
        F[n \in 0..Len(values)] ==
            IF n <= start_index THEN <<>>
            ELSE LET prev     == F[n-1]
                     row      == values[n]
                     i        == n - start_index - 1
                     row_date == IF Len(row) > 0 THEN NormalizeDate(row[1]) ELSE <<>>
                 IN  IF /\ row_date = <<>> /\ Cell(row, 2) = <<>>
                        /\ Cell(row, 4) = <<>> /\ Cell(row, 3) = <<>>
                     THEN prev
                     ELSE Append(prev,
                            [row_id           |-> PhysicalRowId(start_index, i),
                             date             |-> row_date,
                             description      |-> Cell(row, 2),
                             amount           |-> Cell(row, 3),
                             category         |-> Cell(row, 4),
                             machine_pillar   |-> Cell(row, 5),
                             integrity_filter |-> Cell(row, 6),
                             root_trigger     |-> Cell(row, 7),
                             notes            |-> Cell(row, 8)])
    IN  F[Len(values)]

\* "if month_name not in sheet_names: return ... count 0"; ListsAnyMonth is
\* the method without that early return.
ListsAnyMonth(month_name, sheet_names) == TRUE

HasPartition(month_name, sheet_names) == month_name \in sheet_names

ListTransactions(st, fuel, month, year, date_value) ==
    Bind(Step(NewRun(st, fuel), 1, "get", <<>>, <<>>), LAMBDA c1 :
    Bind(GetMonthlySheetName(MonthAnchor(month, year, date_value)), LAMBDA month_name :
    Bind(~c1.failed /\ HasPartition(month_name, SheetNames(c1.st)), LAMBDA exists :
    Bind(IF exists THEN Step(c1, 1, "values.get", month_name, <<>>) ELSE c1, LAMBDA c2 :
    Bind(IF exists /\ ~c2.failed
         THEN Transactions(GetValues(c2.st, month_name)) ELSE <<>>, LAMBDA txs :
        [ctx          |-> c2,
         status       |-> IF c2.failed THEN "error" ELSE "ok",
         month        |-> month_name,
         count        |-> Len(txs),
         transactions |-> txs])))))

(***************************************************************************)
(* Inputs of the calls.                                                    *)
(***************************************************************************)
dJan5Iso == <<"2","0","2","4","-","0","1","-","0","5">>

dJan5Dmy == <<"0","5","/","0","1","/","2","0","2","4">>

dFeb1Dmy == <<"0","1","/","0","2","/","2","0","2","4">>

sFood == <<"F","o","o","d">>

\* A purchase (txA), the same purchase filed under a category that reads as
\* its amount (txC), and a purchase of another month, its date written
\* day first, with no description and no category (txD).
txA == [date |-> dJan5Iso, description |-> <<"A"," ","b">>,
        amount |-> <<"1","0",".","0">>, category |-> sFood]

txC == [date |-> dJan5Iso, description |-> <<"A"," ","b">>,
        amount |-> <<"1","0",".","0">>, category |-> <<"1","0">>]

txD == [date |-> dFeb1Dmy, description |-> <<>>,
        amount |-> <<"5">>, category |-> None]

Txs == {txA, txC, txD}

\* Most rows a tab holds, most items of a batch.
MaxRows == 3

MaxBatch == 2

BatchesOf(S) == UNION {[1..n -> S] : n \in 1..MaxBatch}

Store == [tabs |-> tabs, cells |-> cells]

Fits(st) == \A t \in st.tabs : Len(st.cells[t]) <= MaxRows

\* Store calls (.execute()) of append_transaction on its longest path, and
\* of list_transactions.
CallsPerItem == 5

CallsPerList == 2

\* The failures a run of at most calls store calls can meet: none, or the
\* n-th store call raising.
Fuels(calls) == {NoFailure} \cup 0..(calls - 1)

(***************************************************************************)
(* The state machine: one action per public method of SheetsLedgerStore,   *)
(* each a whole call; last is the record of the call just completed.       *)
(***************************************************************************)
Init ==
    /\ tabs = {}
    /\ cells = [t \in {} |-> <<>>]
    /\ last = [op |-> "none"]

Returned(res) ==
    /\ Fits(res.ctx.st)
    /\ tabs' = res.ctx.st.tabs
    /\ cells' = res.ctx.st.cells

AppendTransactionDone(tx, res) ==
    /\ Returned(res)
    /\ last' = [op      |-> "append_transaction",
                tx      |-> tx,
                status  |-> res.status,
                month   |-> res.month,
                created |-> res.created,
                checked |-> res.checked,
                trace   |-> res.ctx.trace]

AppendTransactionsDone(batch, res) ==
    /\ Returned(res)
    /\ last' = [op         |-> "append_transactions",
                batch      |-> batch,
                status     |-> res.status,
                appended   |-> res.appended,
                duplicates |-> res.duplicates,
                results    |-> res.results,
                trace      |-> res.ctx.trace]

\* The calls on a store none of whose operations fails.
AppendTransactionCall ==
    \E tx \in Txs :
        \E res \in {AppendTransaction(NewRun(Store, NoFailure), 1, tx)} :
            AppendTransactionDone(tx, res)

AppendTransactionsCall ==
    \E batch \in BatchesOf(Txs) :
        \E res \in {AppendTransactions(Store, NoFailure, batch)} :
            AppendTransactionsDone(batch, res)

Next == AppendTransactionCall \/ AppendTransactionsCall

Spec == Init /\ [][Next]_vars

(***************************************************************************)
(* The same calls on a store whose operations may fail: any one store call *)
(* of a run may raise.                                                     *)
(***************************************************************************)
FailTxs == {txA, txD}

FailBatchTxs == {txA}

AppendTransactionFailing ==
    \E tx \in FailTxs :
        \E fuel \in Fuels(CallsPerItem) :
            \E res \in {AppendTransaction(NewRun(Store, fuel), 1, tx)} :
                AppendTransactionDone(tx, res)

AppendTransactionsFailing ==
    \E batch \in BatchesOf(FailBatchTxs) :
        \E fuel \in Fuels(Len(batch) * CallsPerItem) :
            \E res \in {AppendTransactions(Store, fuel, batch)} :
                AppendTransactionsDone(batch, res)

NextFail == AppendTransactionFailing \/ AppendTransactionsFailing

SpecFail == Init /\ [][NextFail]_vars

(***************************************************************************)
(* The reading methods, list_transactions and is_duplicate, as functions   *)
(* of the sheet they read: the January tab starts as any sheet of at most  *)
(* MaxGridRows rows drawn from the header row, rows as append_transaction  *)
(* writes them, a row typed in by hand in other formats, and a blank row   *)
(* (the spreadsheet is its owner's to edit); no other tab exists.          *)
(***************************************************************************)
Blank == <<>>

RowOf(date, description, amount, category) ==
    <<date, description, amount, category, Blank, Blank, Blank, Blank>>

rowA == RowOf(dJan5Iso, <<"A"," ","b">>, <<"1","0",".","0">>, sFood)

rowHand == RowOf(dJan5Dmy, <<" ","a"," "," ","B">>, <<"1","0",",","0","0">>, sFood)

rowBlank == RowOf(Blank, Blank, Blank, Blank)

RowPool == {DEFAULT_HEADERS, rowA, rowHand, rowBlank}

MaxGridRows == 3

Grids == UNION {[1..n -> RowPool] : n \in 0..MaxGridRows}

mJan == GetMonthlySheetName(dJan5Iso)

\* Arguments <<month, year, date>> of list_transactions: nothing (the
\* current month), a month and year, a date, a month that is none, and a
\* month without a tab.
ListArgs == { <<0, 0, None>>, <<1, 2024, None>>, <<0, 0, dJan5Dmy>>,
              <<13, 0, None>>, <<3, 2024, None>> }

\* Arguments <<date, amount, description>> of is_duplicate: rowA's, then
\* rowA's with one field changed (description: case, spacing, another
\* text; amount: another notation, another value; another date).
Probes == { <<dJan5Iso, <<"1","0",".","0">>, <<"A"," ","b">> >>,
            <<dJan5Iso, <<"1","0",".","0">>, <<"a"," ","B">> >>,
            <<dJan5Iso, <<"1","0",".","0">>, <<"A"," "," ","b">> >>,
            <<dJan5Iso, <<"1","0",".","0">>, <<"A"," ","c">> >>,
            <<dJan5Iso, <<"1","0",",","0","0">>, <<"A"," ","b">> >>,
            <<dJan5Iso, <<"5">>, <<"A"," ","b">> >>,
            <<dFeb1Dmy, <<"1","0",".","0">>, <<"A"," ","b">> >> }

InitRead ==
    /\ tabs = {mJan}
    /\ \E g \in Grids : cells = [t \in {mJan} |-> g]
    /\ last = [op |-> "none"]

\* SheetsLedgerStore.is_duplicate: the read, then the scan.
IsDuplicateRun(st, fuel, date_value, amount, description, sheet_name) ==
    Bind(Step(NewRun(st, fuel), 1, "values.get", sheet_name, <<>>), LAMBDA c1 :
    Bind(IF c1.failed THEN <<>> ELSE GetValues(c1.st, sheet_name), LAMBDA seen :
        [ctx    |-> c1,
         status |-> IF c1.failed THEN "error" ELSE "ok",
         seen   |-> seen,
         result |-> ~c1.failed /\ IsDuplicate(seen, date_value, amount, description)]))

ListTransactionsCall ==
    \E args \in ListArgs :
        \E fuel \in Fuels(CallsPerList) :
            \E res \in {ListTransactions(Store, fuel, args[1], args[2], args[3])} :
                /\ UNCHANGED <<tabs, cells>>
                /\ last' = [op           |-> "list_transactions",
                            args         |-> args,
                            status       |-> res.status,
                            month        |-> res.month,
                            count        |-> res.count,
                            transactions |-> res.transactions,
                            trace        |-> res.ctx.trace]

IsDuplicateCall ==
    \E p \in Probes, sheet_name \in tabs, fuel \in Fuels(1) :
        \E res \in {IsDuplicateRun(Store, fuel, p[1], p[2], p[3], sheet_name)} :
            /\ UNCHANGED <<tabs, cells>>
            /\ last' = [op          |-> "is_duplicate",
                        date        |-> p[1],
                        amount      |-> p[2],
                        description |-> p[3],
                        sheet       |-> sheet_name,
                        status      |-> res.status,
                        seen        |-> res.seen,
                        result      |-> res.result,
                        trace       |-> res.ctx.trace]

NextRead == ListTransactionsCall \/ IsDuplicateCall

SpecRead == InitRead /\ [][NextRead]_vars

(***************************************************************************)
(* categories.py and main.py: the fixed category list, _normalize_category *)
(* and the commit endpoint ingest_commit.  A payload item is               *)
(* [date, description, amount, category_approved, category_suggested],     *)
(* the two categories a text or None.                                      *)
(***************************************************************************)
UNCATEGORIZED == sUncategorized

FIXED_CATEGORIES ==
   << <<"I","n","c","o","m","e">>,
      <<"H","o","u","s","i","n","g">>,
      <<"U","t","i","l","i","t","i","e","s">>,
      <<"G","r","o","c","e","r","i","e","s">>,
      <<"D","i","n","i","n","g">>,
      <<"T","r","a","n","s","p","o","r","t">>,
      <<"T","r","a","v","e","l">>,
      <<"S","h","o","p","p","i","n","g">>,
      <<"S","u","b","s","c","r","i","p","t","i","o","n","s">>,
      <<"H","e","a","l","t","h">>,
      <<"E","d","u","c","a","t","i","o","n">>,
      <<"B","u","s","i","n","e","s","s">>,
      <<"T","a","x","e","s">>,
      <<"F","e","e","s">>,
      <<"T","r","a","n","s","f","e","r","s">>,
      <<"O","v","e","r","f","ö","r","i","n","g">>,
      <<"T","i","t","h","e">>,
      <<"C","h","a","r","i","t","y">>,
      <<"S","a","v","i","n","g","s","/","I","n","v","e","s","t","m","e","n","t","s">>,
      UNCATEGORIZED >>

\* Python truthiness of a str | None.
Truthy(value) == value # None /\ value # <<>>

\* _normalize_category as it would be if it let a value it does not know
\* through.
NormalizeCategoryKeepsUnknown(value) ==
    IF ~Truthy(value) THEN UNCATEGORIZED
    ELSE LET raw  == Strip(Str(value))
             hits == {i \in 1..Len(FIXED_CATEGORIES) :
                         Lower(raw) = Lower(FIXED_CATEGORIES[i])}
         IN  IF hits = {} THEN raw ELSE FIXED_CATEGORIES[SetMin(hits)]

NormalizeCategory(value) ==
    IF ~Truthy(value) THEN UNCATEGORIZED
    ELSE LET raw  == Strip(Str(value))
             hits == {i \in 1..Len(FIXED_CATEGORIES) :
                         Lower(raw) = Lower(FIXED_CATEGORIES[i])}
         IN  IF hits = {} THEN UNCATEGORIZED ELSE FIXED_CATEGORIES[SetMin(hits)]

\* "item.category_approved or item.category_suggested"
ApprovedOrSuggested(item) ==
    IF Truthy(item.category_approved) THEN item.category_approved
    ELSE item.category_suggested

\* The list ingest_commit hands to the store.
Normalized(payload) ==
    [k \in 1..Len(payload) |->
        [date        |-> payload[k].date,
         description |-> payload[k].description,
         amount      |-> payload[k].amount,
         category    |-> NormalizeCategory(ApprovedOrSuggested(payload[k]))]]

\* ingest_commit: http is the status of the response (400: no
\* transactions; 500: the store raised; 200: the counts).
IngestCommit(st, fuel, payload) ==
    IF payload = <<>>
    THEN [ctx |-> NewRun(st, fuel), http |-> 400, normalized |-> <<>>,
          appended |-> None, duplicates |-> None]
    ELSE Bind(Normalized(payload), LAMBDA normalized :
         Bind(AppendTransactions(st, fuel, normalized), LAMBDA result :
            [ctx        |-> result.ctx,
             http       |-> IF result.status = "error" THEN 500 ELSE 200,
             normalized |-> normalized,
             appended   |-> result.appended,
             duplicates |-> result.duplicates]))

\* The categories <<approved, suggested>> of the items committed: none; a
\* suggestion alone; an empty approval over a suggestion in another case;
\* an approval with spaces around it; an approval that is no category.
CommitCategories ==
    { <<None, None>>,
      <<None, <<"T","A","X","E","S">>>>,
      <<<<>>, <<"f","e","e","s">>>>,
      <<<<" ","T","a","x","e","s"," ">>, <<"F","e","e","s">>>>,
      <<sFood, <<"F","e","e","s">>>> }

CommitItems ==
    { [date |-> dJan5Iso, description |-> <<"A"," ","b">>,
       amount |-> <<"1","0",".","0">>,
       category_approved |-> c[1], category_suggested |-> c[2]] :
      c \in CommitCategories }

\* The payloads: none, one or two items; the store may fail a commit of
\* one item.
CommitPayloads ==
    {<<>>} \cup {<<a>> : a \in CommitItems}
           \cup {<<a, b>> : a \in CommitItems, b \in CommitItems}

IngestCommitCall ==
    \E payload \in CommitPayloads :
      \E fuel \in (IF Len(payload) = 1 THEN Fuels(1) ELSE {NoFailure}) :
        \E res \in {IngestCommit(Store, fuel, payload)} :
            /\ Returned(res)
            /\ last' = [op         |-> "ingest_commit",
                        payload    |-> payload,
                        http       |-> res.http,
                        normalized |-> res.normalized,
                        appended   |-> res.appended,
                        duplicates |-> res.duplicates,
                        trace      |-> res.ctx.trace]

NextCommit == IngestCommitCall

SpecCommit == Init /\ [][NextCommit]_vars

(***************************************************************************)
(* ingest.py: _normalize_text, _normalize_date.  The results are texts,    *)
(* None when the value does not normalize.                                 *)
(***************************************************************************)
IngestNormalizeText(value) ==
    JoinSplit(Strip(IF Truthy(value) THEN value ELSE <<>>))

\* _DATE_FORMATS of ingest.py, in the order the code tries them.
INGEST_DATE_FORMATS == << <<"-", "ymd">>, <<"/", "ymd">>, <<"/", "dmy">>,
                          <<".", "dmy">>, <<"/", "mdy">>, <<"-", "dmy">>,
                          <<"-", "mdy">> >>

IngestNormalizeDate(value) ==
    IF ~Truthy(value) THEN None
    ELSE LET raw  == Strip(Str(value))
             iso  == FromIsoFormat(raw)
             hits == {i \in 1..Len(INGEST_DATE_FORMATS) :
                         StrpTime(raw, INGEST_DATE_FORMATS[i][1],
                                  INGEST_DATE_FORMATS[i][2]) # NoDate}
         IN  IF raw = <<>> THEN None
             ELSE IF iso # NoDate THEN IsoFormat(iso)
             ELSE IF hits = {} THEN None
             ELSE IsoFormat(StrpTime(raw, INGEST_DATE_FORMATS[SetMin(hits)][1],
                                     INGEST_DATE_FORMATS[SetMin(hits)][2]))

(***************************************************************************)
(* append_transaction over the dates a caller may pass: an ISO date, a     *)
(* date written day first, one written year first with slashes, a date in  *)
(* a notation ledger.py does not read (ingest.py does), and no date.       *)
(***************************************************************************)
dJan13Dot == <<"1","3",".","0","1",".","2","0","2","4">>

txDot == [date |-> dJan13Dot, description |-> <<"A"," ","b">>,
          amount |-> <<"1","0",".","0">>, category |-> sFood]

txNoDate == [date |-> None, description |-> <<"A"," ","b">>,
             amount |-> <<"1","0",".","0">>, category |-> sFood]

dJan6Slash == <<"2","0","2","4","/","0","1","/","0","6">>

txSlash == [date |-> dJan6Slash, description |-> <<"A"," ","b">>,
            amount |-> <<"1","0",".","0">>, category |-> sFood]

DateTxs == {txA, txD, txSlash, txDot, txNoDate}

AppendTransactionDated ==
    \E tx \in DateTxs :
        \E res \in {AppendTransaction(NewRun(Store, NoFailure), 1, tx)} :
            AppendTransactionDone(tx, res)

NextDates == AppendTransactionDated

SpecDates == Init /\ [][NextDates]_vars

(***************************************************************************)
(* ingest.py: _normalize_amount.  The result is the text of the amount     *)
(* quantized to hundredths, None when the value does not normalize.        *)
(***************************************************************************)
RECURSIVE NatStr(_)
\* str(n) of a natural number.
NatStr(n) ==
    IF n < 10 THEN <<DigitChars[n + 1]>>
    ELSE Append(NatStr(n \div 10), DigitChars[(n % 10) + 1])

\* str(Decimal(s).quantize(Decimal("0.01"))) as it would be if the amount
\* were written as a whole number of hundredths.
DecimalStrHundredths(s) ==
    Bind(DecimalQuantize(s), LAMBDA q :
        IF q = NoAmount THEN None
        ELSE IF q[1] < 0 THEN <<"-">> \o NatStr(0 - q[1]) ELSE NatStr(q[1]))

\* str(Decimal(s).quantize(Decimal("0.01"))) for s = [sign] digits [. digits]
\* and for s = [sign] nan in any case, which Decimal() reads as a quiet NaN
\* and quantize() hands back; None when Decimal(s) raises InvalidOperation.
\* The sign of a negative text is kept on a zero result.
DecimalStr(s) ==
    LET signed == Len(s) > 0 /\ s[1] \in {"-", "+"}
        minus  == IF signed /\ s[1] = "-" THEN <<"-">> ELSE <<>>
        body   == IF signed THEN SubSeq(s, 2, Len(s)) ELSE s
    IN  IF Lower(body) = <<"n","a","n">> THEN minus \o <<"N","a","N">>
        ELSE Bind(DecimalQuantize(s), LAMBDA q :
                 IF q = NoAmount THEN None
                 ELSE LET mag == IF q[1] < 0 THEN 0 - q[1] ELSE q[1]
                      IN  minus \o NatStr(mag \div 100) \o <<".">>
                                \o Pad2(mag % 100))

IngestNormalizeAmount(value) ==
    IF value = None THEN None
    ELSE LET raw == Strip(Str(value))
             s1  == Remove(raw, " ")
             s2  == IF Contains(s1, ",") /\ Contains(s1, ".")
                    THEN Remove(s1, ",")
                    ELSE Replace(s1, ",", ".")
         IN  IF raw = <<>> THEN None ELSE DecimalStr(s2)

(***************************************************************************)
(* ingest.py: _detect_type.  filename and content_type are a text or None. *)
(***************************************************************************)
EndsWith(s, suffix) ==
    Len(s) >= Len(suffix) /\ SubSeq(s, Len(s) - Len(suffix) + 1, Len(s)) = suffix

\* sub in s
HasSub(s, sub) ==
    \E i \in 1..(Len(s) - Len(sub) + 1) : SubSeq(s, i, i + Len(sub) - 1) = sub

ByExtension(lower) ==
    IF EndsWith(lower, <<".","c","s","v">>) THEN "csv"
    ELSE IF EndsWith(lower, <<".","x","l","s","x">>)
            \/ EndsWith(lower, <<".","x","l","s","m">>) THEN "xlsx"
    ELSE IF EndsWith(lower, <<".","p","d","f">>) THEN "pdf"
    ELSE "none"

ByContentType(content_type) ==
    IF HasSub(content_type, <<"c","s","v">>) THEN "csv"
    ELSE IF HasSub(content_type, <<"s","p","r","e","a","d","s","h","e","e","t">>)
         THEN "xlsx"
    ELSE IF HasSub(content_type, <<"p","d","f">>) THEN "pdf"
    ELSE "none"

\* _detect_type as it would be if the declared content type were asked
\* before the extension.
DetectTypeContentTypeFirst(filename, content_type) ==
    LET ct  == IF Truthy(content_type) THEN ByContentType(content_type)
               ELSE "none"
        ext == IF Truthy(filename) THEN ByExtension(Lower(filename))
               ELSE "none"
    IN  IF ct # "none" THEN ct ELSE IF ext # "none" THEN ext ELSE "csv"

DetectType(filename, content_type) ==
    LET ext == IF Truthy(filename) THEN ByExtension(Lower(filename))
               ELSE "none"
        ct  == IF Truthy(content_type) THEN ByContentType(content_type)
               ELSE "none"
    IN  IF ext # "none" THEN ext ELSE IF ct # "none" THEN ct ELSE "csv"

(***************************************************************************)
(* ingest.py: _header_map, _find_header, _parse_csv.  The rows are the     *)
(* rows csv.reader yields for the decoded text, each a tuple of cell       *)
(* texts; _parse_csv keeps those with a cell that is not blank.  Column    *)
(* indices and header_idx count from 0 as in the code, source_row from 1.  *)
(***************************************************************************)
header_aliases ==
    [ date |-> { <<"b","o","k","f","ö","r","i","n","g","s","d","a","g">>, <<"t","r","a","n","s","a","k","t","i","o","n","s","d","a","g">> },
      description |-> { <<"b","e","s","k","r","i","v","n","i","n","g">> },
      amount |-> { <<"b","e","l","o","p","p">> },
      currency |-> { <<"v","a","l","u","t","a">> },
      reference |-> { <<"r","e","f","e","r","e","n","s">> },
      balance |-> { <<"b","o","k","f","ö","r","t"," ","s","a","l","d","o">> },
      clearing |-> { <<"c","l","e","a","r","i","n","g","n","u","m","m","e","r">> },
      account |-> { <<"k","o","n","t","o","n","u","m","m","e","r">> },
      product |-> { <<"p","r","o","d","u","k","t">> } ]

HeaderMap(headers) ==
    Bind([i \in 1..Len(headers) |-> Lower(Strip(headers[i]))],
         LAMBDA normalized :
    Bind(header_aliases, LAMBDA aliases :
    Bind([key \in DOMAIN aliases |->
             {i \in 1..Len(headers) : normalized[i] \in aliases[key]}],
         LAMBDA at :
        [key \in {k \in DOMAIN at : at[k] # {}} |-> SetMax(at[key]) - 1])))

HasCritical(mapping) == {"date", "amount", "description"} \subseteq DOMAIN mapping

\* limit of _find_header
HeaderScanLimit == 20

FindHeader(rows) ==
    Bind([i \in 1..(IF Len(rows) < HeaderScanLimit THEN Len(rows)
                     ELSE HeaderScanLimit) |-> HeaderMap(rows[i])],
         LAMBDA maps :
    Bind({i \in DOMAIN maps : HasCritical(maps[i])}, LAMBDA found :
        IF found = {} THEN [idx |-> 0, mapping |-> <<>>]
        ELSE [idx |-> SetMin(found) - 1, mapping |-> maps[SetMin(found)]]))

\* row[mapping[key]] if key in mapping and mapping[key] < len(row) else None
Column(row, mapping, key) ==
    IF key \in DOMAIN mapping /\ mapping[key] < Len(row)
    THEN row[mapping[key] + 1] ELSE None

\* row[i] if len(row) > i else None
Position(row, i) == IF Len(row) > i THEN row[i + 1] ELSE None

\* str(Decimal(credit_norm) - Decimal(debit_norm)) of two amounts that are
\* "0" or were quantized to hundredths.
DecimalDifference(credit_norm, debit_norm) ==
    LET c   == DecimalQuantize(credit_norm)[1]
        d   == DecimalQuantize(debit_norm)[1]
        n   == c - d
        mag == IF n < 0 THEN 0 - n ELSE n
    IN  IF Contains(credit_norm, ".") \/ Contains(debit_norm, ".")
        THEN (IF n < 0 THEN <<"-">> ELSE <<>>)
             \o NatStr(mag \div 100) \o <<".">> \o Pad2(mag % 100)
        ELSE <<"0">>

MappedAmount(row, mapping) ==
    IF "amount" \in DOMAIN mapping /\ mapping["amount"] < Len(row)
    THEN row[mapping["amount"] + 1]
    ELSE LET debit  == Column(row, mapping, "debit")
             credit == Column(row, mapping, "credit")
             \* _normalize_amount(value) or "0"
             OrZero(value) ==
                 Bind(IngestNormalizeAmount(value), LAMBDA norm :
                     IF Truthy(norm) THEN norm ELSE <<"0">>)
         IN  IF Truthy(debit) \/ Truthy(credit)
             THEN DecimalDifference(OrZero(credit), OrZero(debit))
             ELSE None

RawRow(row, mapping, idx) ==
    IF DOMAIN mapping # {}
    THEN [date        |-> Column(row, mapping, "date"),
          description |-> Column(row, mapping, "description"),
          amount      |-> MappedAmount(row, mapping),
          currency    |-> Column(row, mapping, "currency"),
          source_row  |-> idx + 1]
    ELSE [date        |-> Position(row, 0),
          description |-> Position(row, 1),
          amount      |-> Position(row, 2),
          currency    |-> Position(row, 3),
          source_row  |-> idx + 1]

IsBlankCell(cell) == Strip(cell) = <<>>

NotBlankRows(read) ==
    LET keeps(row) == \E i \in 1..Len(row) : ~IsBlankCell(row[i])
        F[i \in 0..Len(read)] ==
            IF i = 0 THEN <<>>
            ELSE LET prev == F[i-1]
                 IN  IF keeps(read[i]) THEN Append(prev, read[i]) ELSE prev
    IN  F[Len(read)]

\* _parse_csv as it would be if it started at the header row.
ParseCsvFromHeaderRow(read) ==
    Bind(NotBlankRows(read), LAMBDA rows :
    Bind(FindHeader(rows), LAMBDA header :
    Bind(header.idx, LAMBDA start_idx :
        IF rows = <<>> THEN <<>>
        ELSE [k \in 1..(IF Len(rows) > start_idx THEN Len(rows) - start_idx
                        ELSE 0) |->
                 RawRow(rows[start_idx + k], header.mapping, start_idx + k - 1)])))

\* _parse_csv as it would be if it read no row without a header.
ParseCsvWithoutFallback(read) ==
    Bind(NotBlankRows(read), LAMBDA rows :
    Bind(FindHeader(rows), LAMBDA header :
    Bind(header.idx + 1, LAMBDA start_idx :
        IF rows = <<>> \/ DOMAIN header.mapping = {} THEN <<>>
        ELSE [k \in 1..(IF Len(rows) > start_idx THEN Len(rows) - start_idx
                        ELSE 0) |->
                 RawRow(rows[start_idx + k], header.mapping, start_idx + k - 1)])))

ParseCsv(read) ==
    Bind(NotBlankRows(read), LAMBDA rows :
    Bind(FindHeader(rows), LAMBDA header :
    Bind(header.idx + 1, LAMBDA start_idx :
        IF rows = <<>> THEN <<>>
        ELSE [k \in 1..(IF Len(rows) > start_idx THEN Len(rows) - start_idx
                        ELSE 0) |->
                 RawRow(rows[start_idx + k], header.mapping, start_idx + k - 1)])))

(***************************************************************************)
(* ingest.py: _CATEGORY_HINTS and _suggest_category_heuristic.  amount is  *)
(* the text _normalize_amount returned, or None.                           *)
(***************************************************************************)
CATEGORY_HINTS ==
   << << <<"H","o","u","s","i","n","g">>,
         << <<"r","e","n","t">>,
            <<"m","o","r","t","g","a","g","e">>,
            <<"l","e","a","s","e">>,
            <<"h","y","r","a">> >> >>,
      << <<"U","t","i","l","i","t","i","e","s">>,
         << <<"e","l","e","c","t","r","i","c">>,
            <<"e","l","e","c","t","r","i","c","i","t","y">>,
            <<"w","a","t","e","r">>,
            <<"i","n","t","e","r","n","e","t">>,
            <<"p","h","o","n","e">>,
            <<"w","i","f","i">> >> >>,
      << <<"G","r","o","c","e","r","i","e","s">>,
         << <<"g","r","o","c","e","r","y">>,
            <<"s","u","p","e","r","m","a","r","k","e","t">>,
            <<"i","c","a">>,
            <<"c","o","o","p">>,
            <<"l","i","d","l">>,
            <<"w","i","l","l","y","s">> >> >>,
      << <<"D","i","n","i","n","g">>,
         << <<"r","e","s","t","a","u","r","a","n","t">>,
            <<"c","a","f","e">>,
            <<"c","o","f","f","e","e">>,
            <<"b","a","r">>,
            <<"p","i","z","z","a">>,
            <<"b","u","r","g","e","r">> >> >>,
      << <<"T","r","a","n","s","p","o","r","t">>,
         << <<"u","b","e","r">>,
            <<"t","a","x","i">>,
            <<"b","u","s">>,
            <<"m","e","t","r","o">>,
            <<"t","r","a","i","n">>,
            <<"s","l">>,
            <<"t","r","a","m">> >> >>,
      << <<"T","r","a","v","e","l">>,
         << <<"h","o","t","e","l">>,
            <<"f","l","i","g","h","t">>,
            <<"a","i","r","b","n","b">>,
            <<"b","o","o","k","i","n","g">>,
            <<"r","y","a","n","a","i","r">>,
            <<"s","a","s">> >> >>,
      << <<"S","h","o","p","p","i","n","g">>,
         << <<"a","m","a","z","o","n">>,
            <<"i","k","e","a">>,
            <<"h","&","m">>,
            <<"z","a","r","a">>,
            <<"s","h","o","p">> >> >>,
      << <<"S","u","b","s","c","r","i","p","t","i","o","n","s">>,
         << <<"n","e","t","f","l","i","x">>,
            <<"s","p","o","t","i","f","y">>,
            <<"s","u","b","s","c","r","i","p","t","i","o","n">>,
            <<"a","d","o","b","e">> >> >>,
      << <<"H","e","a","l","t","h">>,
         << <<"p","h","a","r","m","a","c","y">>,
            <<"d","o","c","t","o","r">>,
            <<"c","l","i","n","i","c">>,
            <<"g","y","m">> >> >>,
      << <<"E","d","u","c","a","t","i","o","n">>,
         << <<"c","o","u","r","s","e">>,
            <<"t","u","i","t","i","o","n">>,
            <<"u","d","e","m","y">>,
            <<"c","o","u","r","s","e","r","a">> >> >>,
      << <<"B","u","s","i","n","e","s","s">>,
         << <<"i","n","v","o","i","c","e">>,
            <<"c","l","i","e","n","t">>,
            <<"o","f","f","i","c","e">>,
            <<"s","u","p","p","l","i","e","s">> >> >>,
      << <<"T","a","x","e","s">>,
         << <<"t","a","x">>,
            <<"s","k","a","t","t">> >> >>,
      << <<"F","e","e","s">>,
         << <<"f","e","e">>,
            <<"c","h","a","r","g","e">>,
            <<"c","o","m","m","i","s","s","i","o","n">> >> >>,
      << <<"T","i","t","h","e">>,
         << <<"c","h","u","r","c","h">>,
            <<"t","i","t","h","e">>,
            <<"t","i","o","n","d","e">>,
            <<"w","e"," ","a","r","e"," ","o","n","e"," ","c","h","u","r","c","h">>,
            <<"h","i","l","l","s","o","n","g">>,
            <<"f","i","l","a","d","e","l","f","i","a">> >> >>,
      << <<"C","h","a","r","i","t","y">>,
         << <<"c","h","a","r","i","t","y">>,
            <<"d","o","n","a","t","i","o","n">>,
            <<"g","i","f","t">>,
            <<"r","e","d"," ","c","r","o","s","s">>,
            <<"u","n","i","c","e","f">> >> >>,
      << <<"O","v","e","r","f","ö","r","i","n","g">>,
         << <<"ö","v","e","r","f","ö","r","i","n","g">>,
            <<"o","v","e","r","f","ö","r","i","n","g">>,
            <<"i","n","t","e","r","n","a","l"," ","t","r","a","n","s","f","e","r">>,
            <<"b","a","l","a","n","c","e"," ","m","o","v","e","m","e","n","t">>,
            <<"a","c","c","o","u","n","t"," ","t","r","a","n","s","f","e","r">>,
            <<"e","g","e","n"," ","ö","v","e","r","f","ö","r","i","n","g">> >> >>,
      << <<"T","r","a","n","s","f","e","r","s">>,
         << <<"t","r","a","n","s","f","e","r">>,
            <<"b","a","n","k">>,
            <<"s","w","i","s","h">> >> >>,
      << <<"S","a","v","i","n","g","s","/","I","n","v","e","s","t","m","e","n","t","s">>,
         << <<"i","n","v","e","s","t","m","e","n","t">>,
            <<"s","a","v","i","n","g","s">>,
            <<"f","u","n","d">>,
            <<"s","t","o","c","k">> >> >>,
      << <<"I","n","c","o","m","e">>,
         << <<"s","a","l","a","r","y">>,
            <<"p","a","y","r","o","l","l">>,
            <<"i","n","c","o","m","e">>,
            <<"r","e","f","u","n","d">> >> >> >>

sIncome == <<"I","n","c","o","m","e">>

\* Decimal(str(amount)) > 0, of a text [sign] digits [. digits]: not
\* negative and not zero; the constructor raises on another text, the
\* comparison on a NaN, and the code passes over the exception.
IsPositive(amount) ==
    LET s == Str(amount)
    IN  /\ DecimalQuantize(s) # NoAmount
        /\ s[1] # "-"
        /\ \E i \in 1..Len(s) : IsDigit(s[i]) /\ s[i] # "0"

\* _suggest_category_heuristic as it would be if a later category of the
\* table won over an earlier one.
SuggestCategoryHeuristicLastWins(description, amount) ==
    Bind(Lower(IngestNormalizeText(description)), LAMBDA text :
    Bind(CATEGORY_HINTS, LAMBDA hints :
    Bind({i \in 1..Len(hints) :
             \E j \in 1..Len(hints[i][2]) : HasSub(text, hints[i][2][j])},
         LAMBDA hits :
        IF hits # {} THEN hints[SetMax(hits)][1]
        ELSE IF amount # None /\ IsPositive(amount) THEN sIncome
        ELSE UNCATEGORIZED)))

SuggestCategoryHeuristic(description, amount) ==
    Bind(Lower(IngestNormalizeText(description)), LAMBDA text :
    Bind(CATEGORY_HINTS, LAMBDA hints :
    Bind({i \in 1..Len(hints) :
             \E j \in 1..Len(hints[i][2]) : HasSub(text, hints[i][2][j])},
         LAMBDA hits :
        IF hits # {} THEN hints[SetMin(hits)][1]
        ELSE IF amount # None /\ IsPositive(amount) THEN sIncome
        ELSE UNCATEGORIZED)))

(***************************************************************************)
(* ingest.py: parse_statement, and main.py: ingest_preview.  A file is     *)
(* [filename, content_type, read], read the rows csv.reader yields for its *)
(* text: no row at all for a file without data, and then the first line,   *)
(* which the dialect is taken from, does not exist.  Of a transaction the  *)
(* date, description, amount, suggested category, needs_review and         *)
(* source_row are modelled; the batch id, the file hash, the metadata, the *)
(* currency, the merchant and the pillar are not.                          *)
(***************************************************************************)
\* needs_review as it would be if a category guessed from the sign of the
\* amount alone were sent to review too.
NeedsReviewGuessed(category) == category \in {UNCATEGORIZED, sIncome}

NeedsReview(category) == category = UNCATEGORIZED

\* The transaction of a raw row, in a tuple; the empty tuple for a row
\* that is dropped.
NormalizedRow(row) ==
    Bind(IngestNormalizeDate(row.date), LAMBDA date_value :
    Bind(IngestNormalizeAmount(row.amount), LAMBDA amount_value :
    Bind(IngestNormalizeText(row.description), LAMBDA text :
    Bind(IF text = <<>> THEN sUnknown ELSE text, LAMBDA description :
        IF ~Truthy(date_value) \/ amount_value = None THEN <<>>
        ELSE Bind(SuggestCategoryHeuristic(description, amount_value),
                  LAMBDA category :
                 << [date               |-> date_value,
                     description        |-> description,
                     amount             |-> amount_value,
                     category_suggested |-> category,
                     needs_review       |-> NeedsReview(category),
                     source_row         |-> row.source_row] >>)))))

NormalizedRows(raw_transactions) ==
    LET F[i \in 0..Len(raw_transactions)] ==
            IF i = 0 THEN <<>>
            ELSE F[i-1] \o NormalizedRow(raw_transactions[i])
    IN  F[Len(raw_transactions)]

NotCalled == [raised |-> "", raw_transactions |-> <<>>, transactions |-> <<>>]

ParseStatement(file) ==
    Bind(DetectType(file.filename, file.content_type), LAMBDA file_type :
        IF file_type # "csv"
        THEN [raised |-> "ValueError", raw_transactions |-> <<>>,
              transactions |-> <<>>]
        ELSE IF file.read = <<>>
        THEN [raised |-> "IndexError", raw_transactions |-> <<>>,
              transactions |-> <<>>]
        ELSE Bind(ParseCsv(file.read), LAMBDA raw_transactions :
                 [raised           |-> "",
                  raw_transactions |-> raw_transactions,
                  transactions     |-> NormalizedRows(raw_transactions)]))

\* ingest_preview: whether parse_statement was called and what came of it,
\* the status, the detail of a rejection, and the body of an answer.
IngestPreview(file, limit) ==
    IF file.read = <<>>
    THEN [called |-> FALSE, result |-> NotCalled, http |-> 400,
          detail |-> "Uploaded file is empty", transactions |-> <<>>,
          truncated |-> FALSE, needs_review_count |-> 0,
          total_transactions |-> 0]
    ELSE Bind(ParseStatement(file), LAMBDA result :
         Bind(result.transactions, LAMBDA transactions :
         Bind(Len(transactions) > limit, LAMBDA truncated :
         Bind(IF truncated THEN SubSeq(transactions, 1, limit)
              ELSE transactions, LAMBDA shown :
             IF result.raised # ""
             THEN [called |-> TRUE, result |-> result, http |-> 400,
                   detail |-> "Failed to parse statement file",
                   transactions |-> <<>>, truncated |-> FALSE,
                   needs_review_count |-> 0, total_transactions |-> 0]
             ELSE [called |-> TRUE, result |-> result, http |-> 200,
                   detail |-> "", transactions |-> shown,
                   truncated |-> truncated,
                   needs_review_count |->
                       Cardinality({i \in 1..Len(shown) :
                                       shown[i].needs_review}),
                   total_transactions |-> Len(transactions)]))))

(***************************************************************************)
(* The statements ingest_preview is given: up to MaxFileRows rows of a     *)
(* Swedbank export or of a bank that writes debit and credit columns, with *)
(* the header or without, under a name and a declared type.                *)
(***************************************************************************)
hSwedbank == << <<"B","o","k","f","ö","r","i","n","g","s","d","a","g">>, <<"B","e","s","k","r","i","v","n","i","n","g">>, <<"B","e","l","o","p","p">> >>

hDebitCredit == << <<"B","o","k","f","ö","r","i","n","g","s","d","a","g">>, <<"B","e","s","k","r","i","v","n","i","n","g">>, <<"D","e","b","i","t">>, <<"C","r","e","d","i","t">> >>

rCoffee == << <<"2","0","2","4","-","0","1","-","0","5">>, <<"C","o","f","f","e","e">>, <<"-","4","5",",","0","0">> >>

rMisc == << <<"0","5","/","0","1","/","2","0","2","4">>, <<" ","M","i","s","c"," ">>, <<"-","1">> >>

rNan == << <<"2","0","2","4","-","0","1","-","0","6">>, <<"P","a","y">>, <<"n","a","n">> >>

rSoon == << <<"s","o","o","n">>, <<"I","C","A">>, <<"1","0">> >>

rDebit == << <<"2","0","2","4","-","0","1","-","0","5">>, <<"P","a","y">>, <<"1","0","0",",","0","0">>, <<>> >>

rCredit == << <<"2","0","2","4","-","0","1","-","0","7">>, <<"P","a","y">>, <<>>, <<"5","0",",","0","0">> >>

rNeither == << <<"2","0","2","4","-","0","1","-","0","6">>, <<"P","a","y">>, <<>>, <<>> >>

rEmpty == <<>>

FileRows == {hSwedbank, hDebitCredit, rCoffee, rMisc, rNan, rSoon, rDebit,
             rCredit, rNeither, rEmpty}

MaxFileRows == 3

Reads == UNION {[1..n -> FileRows] : n \in 0..MaxFileRows}

sCsvName == <<"s",".","C","S","V">>

sPdfName == <<"s",".","p","d","f">>

sCsvType == <<"t","e","x","t","/","c","s","v">>

Named == { <<sCsvName, <<>>  >>, <<sPdfName, sCsvType>>, << <<>>, <<>> >> }

Files == {[filename |-> n[1], content_type |-> n[2], read |-> r] :
             n \in Named, r \in Reads}

\* limit of ingest_preview: its default, and the least it may be.
Limits == {500, 1}

InitIngest ==
    /\ tabs = {}
    /\ cells = [t \in {} |-> <<>>]
    /\ \E file \in Files : last = [op |-> "upload", file |-> file]

IngestPreviewCall ==
    /\ last.op = "upload"
    /\ \E limit \in Limits :
       \E res \in {IngestPreview(last.file, limit)} :
           last' = [op |-> "ingest_preview", file |-> last.file,
                    limit |-> limit, called |-> res.called,
                    result |-> res.result, http |-> res.http,
                    detail |-> res.detail, transactions |-> res.transactions,
                    truncated |-> res.truncated,
                    needs_review_count |-> res.needs_review_count,
                    total_transactions |-> res.total_transactions]
    /\ UNCHANGED <<tabs, cells>>

NextIngest == IngestPreviewCall

SpecIngest == InitIngest /\ [][NextIngest]_vars

(***************************************************************************)
(* _detect_type over the names and declared types of an upload: no name,   *)
(* an empty one, names with each recognized extension in either case, with *)
(* another extension, with a recognized one that is not at the end; no     *)
(* declared type, and types that hold one of the markers or none.          *)
(***************************************************************************)
FileNames ==
    { None,
      <<>>,
      <<"s",".","C","S","V">>,
      <<"s",".","c","s","v">>,
      <<"s",".","x","l","s","x">>,
      <<"s",".","X","L","S","M">>,
      <<"s",".","p","d","f">>,
      <<"s",".","t","x","t">>,
      <<"c","s","v">>,
      <<"s",".","p","d","f",".","t","x","t">>,
      <<"s",".","c","s","v"," ">> }

ContentTypes ==
    { None,
      <<>>,
      <<"t","e","x","t","/","c","s","v">>,
      <<"a","p","p","l","i","c","a","t","i","o","n","/","p","d","f">>,
      <<"a","p","p","l","i","c","a","t","i","o","n","/","P","D","F">>,
      <<"t","e","x","t","/","p","l","a","i","n">>,
      <<"a","p","p","l","i","c","a","t","i","o","n","/","v","n","d",".","m","s","-","e","x","c","e","l">>,
      <<"a","p","p","l","i","c","a","t","i","o","n","/","v","n","d",".","o","p","e","n","x","m","l","f","o","r","m","a","t","s","-","o","f","f","i","c","e","d","o","c","u","m","e","n","t",".","s","p","r","e","a","d","s","h","e","e","t","m","l",".","s","h","e","e","t">> }

InitDetect ==
    /\ tabs = {}
    /\ cells = [t \in {} |-> <<>>]
    /\ \E filename \in FileNames, content_type \in ContentTypes :
          last = [op |-> "named", filename |-> filename,
                  content_type |-> content_type]

DetectTypeCall ==
    /\ last.op = "named"
    /\ last' = [op |-> "detect_type", filename |-> last.filename,
                content_type |-> last.content_type,
                type |-> DetectType(last.filename, last.content_type)]
    /\ UNCHANGED <<tabs, cells>>

NextDetect == DetectTypeCall

SpecDetect == InitDetect /\ [][NextDetect]_vars

(***************************************************************************)
(* ingest.py: _parse_model_response and suggest_category.  mode is the     *)
(* value of CATEGORY_SUGGESTION_MODE, "model" when the variable is not     *)
(* set.  The oracle is what _get_model and generate_content do: the model  *)
(* cannot be had, the call raises, or it answers with a text or None.      *)
(***************************************************************************)
\* s.strip(".")
StripDots(s) ==
    LET idx == {i \in 1..Len(s) : s[i] # "."}
    IN  IF idx = {} THEN <<>> ELSE SubSeq(s, SetMin(idx), SetMax(idx))

\* _parse_model_response as it would be if it took the answer as it is.
ParseModelResponseVerbatim(response_text) ==
    IF ~Truthy(response_text) THEN None
    ELSE Strip(StripDots(Strip(response_text)))

ParseModelResponse(response_text) ==
    IF ~Truthy(response_text) THEN None
    ELSE LET normalized == Lower(Strip(StripDots(Strip(response_text))))
             hits == {i \in 1..Len(FIXED_CATEGORIES) :
                         normalized = Lower(FIXED_CATEGORIES[i])}
         IN  IF hits = {} THEN None ELSE FIXED_CATEGORIES[SetMin(hits)]

\* The category, and whether an exception left the function.
SuggestCategory(description, amount, mode, oracle) ==
    LET category == IF Lower(mode) = <<"m","o","d","e","l">>
                       /\ oracle.does = "answers"
                    THEN ParseModelResponse(oracle.text)
                    ELSE None
    IN  [raised   |-> FALSE,
         category |-> IF Truthy(category) THEN category
                      ELSE SuggestCategoryHeuristic(description, amount)]

(***************************************************************************)
(* suggest_category over descriptions with a keyword and without, amounts  *)
(* of either sign, the modes, and the oracle's failures and answers.       *)
(***************************************************************************)
Descriptions == { <<"I","C","A"," "," ","M","a","x","i">>, <<"M","i","s","c">>, <<>> }

Amounts == { None, <<"-","4","5",".","0","0">>, <<"1","2",".","5","0">> }

Modes == { <<"m","o","d","e","l">>, <<"M","O","D","E","L">>, <<"h","e","u","r","i","s","t","i","c">> }

Answers ==
    { None,
      <<>>,
      <<"G","r","o","c","e","r","i","e","s">>,
      <<" ","g","r","o","c","e","r","i","e","s",".","\n">>,
      <<"F","E","E","S">>,
      <<"G","r","o","c","e","r","i","e","s","!">>,
      <<"F","o","o","d">>,
      <<".",".","T","i","t","h","e","."," ">> }

Oracles == {[does |-> "unavailable", text |-> None],
            [does |-> "raises", text |-> None]}
           \cup {[does |-> "answers", text |-> a] : a \in Answers}

InitSuggest ==
    /\ tabs = {}
    /\ cells = [t \in {} |-> <<>>]
    /\ \E description \in Descriptions, amount \in Amounts, mode \in Modes,
          oracle \in Oracles :
          last = [op |-> "asked", description |-> description,
                  amount |-> amount, mode |-> mode, oracle |-> oracle]

SuggestCategoryCall ==
    /\ last.op = "asked"
    /\ \E res \in {SuggestCategory(last.description, last.amount, last.mode,
                                   last.oracle)} :
          last' = [op |-> "suggest_category", description |-> last.description,
                   amount |-> last.amount, mode |-> last.mode,
                   oracle |-> last.oracle, raised |-> res.raised,
                   category |-> res.category]
    /\ UNCHANGED <<tabs, cells>>

NextSuggest == SuggestCategoryCall

SpecSuggest == InitSuggest /\ [][NextSuggest]_vars

(***************************************************************************)
(* _normalize_amount over the texts of an amount cell: every text of up to *)
(* MaxAmountLen characters out of digits, the two separators, the minus    *)
(* sign and the space, and longer amounts in either style.                 *)
(***************************************************************************)
AmountChars == {"0", "1", "5", ",", ".", "-", " "}

MaxAmountLen == 4

AmountSamples ==
    { <<"1",".","2","3","4",",","5","6">>,
      <<"1",",","2","3","4",".","5","6">>,
      <<"-","1","0","0",",","0","0">>,
      <<"1"," ","2","0","0",",","5","0">>,
      <<"n","a","n">>,
      <<"1","2",".","3","4","5">> }

AmountTexts ==
    UNION {[1..n -> AmountChars] : n \in 1..MaxAmountLen} \cup AmountSamples

InitAmount ==
    /\ tabs = {}
    /\ cells = [t \in {} |-> <<>>]
    /\ \E value \in AmountTexts : last = [op |-> "cell", value |-> value]

\* _normalize_amount of the cell, and of what it returned.
NormalizeAmountCall ==
    /\ last.op = "cell"
    /\ \E canonical \in {IngestNormalizeAmount(last.value)} :
          last' = [op |-> "normalize_amount", value |-> last.value,
                   canonical |-> canonical,
                   again |-> IngestNormalizeAmount(canonical)]
    /\ UNCHANGED <<tabs, cells>>

NextAmount == NormalizeAmountCall

SpecAmount == InitAmount /\ [][NextAmount]_vars

(***************************************************************************)
(* _amounts_match over the cells and arguments is_duplicate passes: one    *)
(* amount written with a point, with a comma, with spaces between the      *)
(* thousands and with fewer decimals; other amounts; texts that are no     *)
(* amount; an empty cell and no value.                                     *)
(***************************************************************************)
MatchTexts ==
    { None,
      <<"1","2","0","0",".","5","0">>,
      <<"1"," ","2","0","0",",","5","0">>,
      <<"1","2","0","0",",","5">>,
      <<" ","1"," ","2","0","0",".","5"," ">>,
      <<"1","2","0","0",".","5","1">>,
      <<"-","1","2",",","5">>,
      <<"-","1","2",".","5","0">>,
      <<"0">>,
      <<"a","b","c">>,
      <<" ","A","B","C">>,
      <<"a"," "," ","b">>,
      <<"A"," ","b">>,
      <<"n","a","n">>,
      <<"N","a","N">>,
      <<"i","n","f">>,
      <<>> }

InitMatch ==
    /\ tabs = {}
    /\ cells = [t \in {} |-> <<>>]
    /\ \E left \in MatchTexts, right \in MatchTexts :
          last = [op |-> "pair", left |-> left, right |-> right]

AmountsMatchCall ==
    /\ last.op = "pair"
    /\ last' = [op |-> "amounts_match", left |-> last.left,
                right |-> last.right,
                match |-> AmountsMatch(last.left, last.right)]
    /\ UNCHANGED <<tabs, cells>>

NextMatch == AmountsMatchCall

SpecMatch == InitMatch /\ [][NextMatch]_vars

(***************************************************************************)
(* ingest.py: _parse_pdf, from the lines of the extracted text             *)
(* (text.splitlines()).  The two regular expressions are matched as re     *)
(* matches them: the date is the leftmost match between word boundaries,   *)
(* the amounts are the matches of findall, each the longest at its place,  *)
(* found from left to right without overlap.                               *)
(***************************************************************************)
IsWordChar(c) ==
    \/ IsDigit(c)
    \/ c = "_"
    \/ \E i \in 1..26 : c = UpperChars[i] \/ c = LowerChars[i]

\* line[i:i+n] is n digits
DigitsAt(line, i, n) ==
    i + n - 1 <= Len(line) /\ \A j \in i..(i + n - 1) : IsDigit(line[j])

CharAt(line, i, chars) == i <= Len(line) /\ line[i] \in chars

\* \b(\d{4}-\d{2}-\d{2}|\d{2}[./-]\d{2}[./-]\d{4})\b matches at i
DateAt(line, i) ==
    /\ i = 1 \/ ~IsWordChar(line[i - 1])
    /\ i + 10 > Len(line) \/ ~IsWordChar(line[i + 10])
    /\ \/ /\ DigitsAt(line, i, 4) /\ CharAt(line, i + 4, {"-"})
          /\ DigitsAt(line, i + 5, 2) /\ CharAt(line, i + 7, {"-"})
          /\ DigitsAt(line, i + 8, 2)
       \/ /\ DigitsAt(line, i, 2) /\ CharAt(line, i + 2, {".", "/", "-"})
          /\ DigitsAt(line, i + 3, 2) /\ CharAt(line, i + 5, {".", "/", "-"})
          /\ DigitsAt(line, i + 6, 4)

\* The length of the match of [-+]?\d{1,3}(?:[.,]\d{3})*(?:[.,]\d{2})? at i,
\* 0 when there is none.
AmountLenAt(line, i) ==
    LET sign   == IF CharAt(line, i, {"-", "+"}) THEN 1 ELSE 0
        p      == i + sign
        digits == SetMax({n \in 0..3 : \A m \in 1..n : DigitsAt(line, p, m)})
        q      == p + digits
        groups == SetMax({g \in 0..Len(line) :
                     \A j \in 0..(g - 1) :
                         /\ CharAt(line, q + 4 * j, {".", ","})
                         /\ DigitsAt(line, q + 4 * j + 1, 3)})
        r      == q + 4 * groups
        cents  == IF CharAt(line, r, {".", ","}) /\ DigitsAt(line, r + 1, 2)
                  THEN 3 ELSE 0
    IN  IF digits = 0 THEN 0 ELSE sign + digits + 4 * groups + cents

\* re.findall of the amount pattern
AmountMatches(line) ==
    LET F[k \in 0..Len(line)] ==
            \* the matches found from position Len(line) - k + 1 on
            LET i == Len(line) - k + 1
                n == AmountLenAt(line, i)
            IN  IF k = 0 THEN <<>>
                ELSE IF n = 0 THEN F[k - 1]
                ELSE <<SubSeq(line, i, i + n - 1)>> \o F[k - n]
    IN  F[Len(line)]

\* s.replace(sub, "") for a sub that is not empty
Without(s, sub) ==
    LET F[k \in 0..Len(s)] ==
            LET i == Len(s) - k + 1
            IN  IF k = 0 THEN <<>>
                ELSE IF k >= Len(sub) /\ SubSeq(s, i, i + Len(sub) - 1) = sub
                THEN F[k - Len(sub)]
                ELSE <<s[i]>> \o F[k - 1]
    IN  F[Len(s)]

\* s.strip(" -")
StripSpacesAndDashes(s) ==
    LET idx == {i \in 1..Len(s) : s[i] \notin {" ", "-"}}
    IN  IF idx = {} THEN <<>> ELSE SubSeq(s, SetMin(idx), SetMax(idx))

\* The raw row of one line, in a tuple; the empty tuple for a line that
\* yields none.
PdfLine(text_line, idx) ==
    LET line      == Strip(text_line)
        dates     == {i \in 1..Len(line) : DateAt(line, i)}
        date_val  == SubSeq(line, SetMin(dates), SetMin(dates) + 9)
    IN  IF line = <<>> \/ dates = {} THEN <<>>
        ELSE Bind(AmountMatches(line), LAMBDA amount_matches :
             IF amount_matches = <<>> THEN <<>>
             ELSE LET amount_val == amount_matches[Len(amount_matches)]
                  IN  << [date        |-> date_val,
                          description |->
                              StripSpacesAndDashes(
                                  Without(Without(line, date_val), amount_val)),
                          amount      |-> amount_val,
                          currency    |-> None,
                          source_row  |-> idx + 1] >>)

ParsePdf(lines) ==
    LET F[k \in 0..Len(lines)] ==
            IF k = 0 THEN <<>> ELSE F[k - 1] \o PdfLine(lines[k], k - 1)
    IN  F[Len(lines)]

(***************************************************************************)
(* parse_statement and _parse_pdf over statements in PDF: up to            *)
(* MaxPdfLines lines of extracted text, a line with a date, a balance and  *)
(* an amount, with a date and an amount, with a date alone, with an amount *)
(* alone, an empty line, and a line whose amount has no thousands          *)
(* separator; under a name that ends in .pdf or a declared type of pdf.    *)
(* The text holds no 'Currency:' line, so the metadata has no currency.    *)
(***************************************************************************)
lBalanceAmount == <<"2","0","2","4","-","0","1","-","0","5"," ","C","o","f","f","e","e"," ","1",".","2","3","4",",","5","6"," ","-","4","5",",","0","0">>

lAmount == <<"0","5",".","0","1",".","2","0","2","4"," ","I","C","A"," ","4","5",",","0","0">>

lNoAmount == <<"2","0","2","4","-","0","1","-","0","6"," ","T","r","a","n","s","f","e","r">>

lNoDate == <<"B","a","l","a","n","c","e"," ","1",".","2","3","4",",","5","6">>

lBlank == <<>>

lPlain == <<"R","e","n","t"," ","2","0","2","4","-","0","1","-","0","7"," ","1","2","0","0",",","5","0">>

PdfLines == {lBalanceAmount, lAmount, lNoAmount, lNoDate, lBlank, lPlain}

MaxPdfLines == 2

sPdfType == <<"a","p","p","l","i","c","a","t","i","o","n","/","p","d","f">>

PdfFiles ==
    {[filename |-> n[1], content_type |-> n[2], lines |-> l] :
        n \in { <<sPdfName, sCsvType>>, << <<>>, sPdfType >> },
        l \in UNION {[1..k -> PdfLines] : k \in 1..MaxPdfLines}}

InitPdf ==
    /\ tabs = {}
    /\ cells = [t \in {} |-> <<>>]
    /\ \E file \in PdfFiles : last = [op |-> "pdf", file |-> file]

\* _parse_pdf on the text of the file.
ParsePdfCall ==
    /\ last.op = "pdf"
    /\ last' = [op |-> "parse_pdf", file |-> last.file,
                raw_transactions |-> ParsePdf(last.file.lines)]
    /\ UNCHANGED <<tabs, cells>>

\* parse_statement on the file.
ParseStatementCall ==
    /\ last.op = "pdf"
    /\ \E result \in {ParseStatement(last.file)} :
          last' = [op |-> "parse_statement", file |-> last.file,
                   raised |-> result.raised,
                   transactions |-> result.transactions]
    /\ UNCHANGED <<tabs, cells>>

NextPdf == ParsePdfCall \/ ParseStatementCall

SpecPdf == InitPdf /\ [][NextPdf]_vars

(***************************************************************************)
(* backend/processors/agent.py: list_month_transactions and                *)
(* list_uncategorized_transactions, over the SheetsLedgerStore of          *)
(* backend/storers/sheets.py. That class has __init__, _ensure_service,    *)
(* _ensure_spreadsheet_id, _ensure_month_sheet, is_duplicate and           *)
(* append_transaction and no list_transactions, so the attribute lookup    *)
(* store.list_transactions raises AttributeError before any store call.    *)
(***************************************************************************)
AgentNormalize(text) == JoinSplit(Lower(Strip(text)))

BackendStoreMethods ==
    {"_ensure_service", "_ensure_spreadsheet_id", "_ensure_month_sheet",
     "is_duplicate", "append_transaction"}

ListMonthTransactions(st, month, year, date_value) ==
    IF "list_transactions" \in BackendStoreMethods
    THEN [raised |-> ""] @@ ListTransactions(st, NoFailure, month, year, date_value)
    ELSE [raised |-> "AttributeError"]

KeepUncategorized(transactions) ==
    SelectSeq(transactions,
              LAMBDA transaction :
                  LET category == AgentNormalize(transaction.category)
                  IN  ~Truthy(category) \/ category = AgentNormalize(UNCATEGORIZED))

ListUncategorizedTransactions(st, month, year, date_value) ==
    LET result == ListMonthTransactions(st, month, year, date_value)
    IN  IF result.raised # "" THEN result
        ELSE [result EXCEPT
                !.transactions = KeepUncategorized(result.transactions),
                !.count = Len(KeepUncategorized(result.transactions))]

(***************************************************************************)
(* The January tab under list_uncategorized_transactions: the header row   *)
(* and up to MaxGridRows rows, filed under a category, under               *)
(* ' uncategorized', or under none.                                        *)
(***************************************************************************)
rowUncategorized ==
    RowOf(dJan5Iso, <<"C","o","f","f","e","e">>, <<"5",".","0","0">>,
          <<" ","u","n","c","a","t","e","g","o","r","i","z","e","d">>)

rowNoCategory == RowOf(dJan5Iso, <<"B","u","s">>, <<"-","2",".","5","0">>, Blank)

InitUncategorized ==
    /\ tabs = {mJan}
    /\ \E g \in UNION {[1..n -> {DEFAULT_HEADERS, rowA, rowUncategorized, rowNoCategory}] :
                          n \in 0..MaxGridRows} :
          cells = [t \in {mJan} |-> g]
    /\ last = [op |-> "none"]

ListUncategorizedTransactionsCall ==
    \E args \in ListArgs :
        \E res \in {ListUncategorizedTransactions(Store, args[1], args[2], args[3])} :
            /\ UNCHANGED <<tabs, cells>>
            /\ last' = [op |-> "list_uncategorized_transactions", args |-> args] @@ res

NextUncategorized == ListUncategorizedTransactionsCall \/ ListTransactionsCall

SpecUncategorized == InitUncategorized /\ [][NextUncategorized]_vars

(***************************************************************************)
(* ledger.py: SheetsLedgerStore.append_transaction run by two callers at   *)
(* once.  Nothing in the method, the class or the module holds a lock, so  *)
(* the calls interleave at their store calls (.execute()), each of which   *)
(* the store serves whole.  A call is the locals of the method and the     *)
(* store call it makes next (pc); log is the store calls served so far,    *)
(* each <<caller, call, outcome>>.  No store call fails here; the store    *)
(* refuses a second tab of one title.                                      *)
(***************************************************************************)
Callers == {1, 2}

NewCall(tx) ==
    LET description == OrDefault(tx.description, sUnknown)
        category    == OrDefault(tx.category, sUncategorized)
        normalized  == NormalizeDate(tx.date)
        date_value  == IF normalized # <<>> THEN normalized ELSE IsoFormat(Today)
    IN  [pc          |-> "get",
         tx          |-> tx,
         description |-> description,
         date_value  |-> date_value,
         month_name  |-> GetMonthlySheetName(date_value),
         row         |-> <<date_value, description, Str(tx.amount), category,
                           <<>>, <<>>, <<>>, <<>> >>,
         created     |-> FALSE,
         status      |-> "running"]

\* txC is filed under a category that reads as its amount, the rows
\* is_duplicate recognizes.
ConcurrentTxs == {txA, txC}

InitConcurrent ==
    /\ \E g \in {<<>>, <<DEFAULT_HEADERS>>, <<DEFAULT_HEADERS, rowA>>} :
          /\ tabs = IF g = <<>> THEN {} ELSE {mJan}
          /\ cells = [t \in tabs |-> g]
    /\ \E tx1 \in ConcurrentTxs, tx2 \in ConcurrentTxs :
          last = [op    |-> "append_transaction by two",
                  calls |-> <<NewCall(tx1), NewCall(tx2)>>,
                  log   |-> <<>>]

\* Caller c is at pc; its store call leaves the store as st and the call
\* as call.
Served(c, st, call, outcome) ==
    /\ tabs' = st.tabs
    /\ cells' = st.cells
    /\ last' = [last EXCEPT !.calls[c] = call,
                            !.log = Append(@, <<c, last.calls[c].pc, outcome>>)]

\* spreadsheets().get, then "if month_name in sheet_names" of
\* _ensure_month_sheet.
GetSpreadsheet(c) ==
    LET call == last.calls[c]
    IN  /\ call.pc = "get"
        /\ Served(c, Store,
                  [call EXCEPT !.pc = IF call.month_name \in SheetNames(Store)
                                      THEN "values.get" ELSE "addSheet"],
                  "ok")

\* batchUpdate(addSheet); the exception of a refused request ends the call.
AddSheetRequest(c) ==
    LET call == last.calls[c]
    IN  /\ call.pc = "addSheet"
        /\ IF Accepts(Store, "addSheet", call.month_name)
           THEN Served(c, AddSheet(Store, call.month_name),
                       [call EXCEPT !.pc = "update"], "ok")
           ELSE Served(c, Store,
                       [call EXCEPT !.pc = "done", !.status = "error"], "raised")

\* values().update of the header row at A1.
UpdateHeader(c) ==
    LET call == last.calls[c]
    IN  /\ call.pc = "update"
        /\ Served(c, UpdateA1(Store, call.month_name, DEFAULT_HEADERS),
                  [call EXCEPT !.pc = "setDataValidation"], "ok")

\* batchUpdate(setDataValidation), "return True", and "not created" false:
\* is_duplicate is not called.
SetDataValidation(c) ==
    LET call == last.calls[c]
    IN  /\ call.pc = "setDataValidation"
        /\ Served(c, Store,
                  [call EXCEPT !.pc = "values.append", !.created = TRUE], "ok")

\* is_duplicate: values().get and the scan; a duplicate ends the call.
DuplicateCheck(c) ==
    LET call == last.calls[c]
        dup  == IsDuplicate(GetValues(Store, call.month_name), call.date_value,
                            call.tx.amount, call.description)
    IN  /\ call.pc = "values.get"
        /\ Served(c, Store,
                  IF dup THEN [call EXCEPT !.pc = "done", !.status = "duplicate"]
                         ELSE [call EXCEPT !.pc = "values.append"],
                  IF dup THEN "found" ELSE "absent")

\* Whether the append goes ahead on the store as it is at the append: the
\* method appends on the strength of the read it made before.  As it would
\* be if check and append were one store operation:
WritesUnlessThere(st, call) ==
    ~IsDuplicate(GetValues(st, call.month_name), call.date_value,
                 call.tx.amount, call.description)

Writes(st, call) == TRUE

\* values().append of the row, and "return appended".
AppendValues(c) ==
    LET call == last.calls[c]
    IN  /\ call.pc = "values.append"
        /\ IF Writes(Store, call)
           THEN Served(c, AppendRow(Store, call.month_name, call.row),
                       [call EXCEPT !.pc = "done", !.status = "appended"], "ok")
           ELSE Served(c, Store,
                       [call EXCEPT !.pc = "done", !.status = "duplicate"], "skipped")

NextConcurrent ==
    \E c \in Callers :
        \/ GetSpreadsheet(c)
        \/ AddSheetRequest(c)
        \/ UpdateHeader(c)
        \/ SetDataValidation(c)
        \/ DuplicateCheck(c)
        \/ AppendValues(c)

SpecConcurrent == InitConcurrent /\ [][NextConcurrent]_vars

(***************************************************************************)
(* _find_header, _parse_csv and parse_statement over delimited files: the  *)
(* statements of ingest_preview, and exports that open with lines of       *)
(* preamble, the header on the last row _find_header scans or on the row   *)
(* after it.                                                               *)
(***************************************************************************)
rPreamble == <<<<"K","o","n","t","o","u","t","d","r","a","g">>>>

LongReads ==
    {[i \in 1..k |-> rPreamble] \o <<hSwedbank, rCoffee>> :
        k \in {HeaderScanLimit - 1, HeaderScanLimit}}

InitCsv ==
    /\ tabs = {}
    /\ cells = [t \in {} |-> <<>>]
    /\ \E read \in Reads \cup LongReads : last = [op |-> "csv", read |-> read]

\* _parse_csv on the rows of the file; header is what its _find_header
\* returned, warned whether _find_header logged its warning.
ParseCsvCall ==
    /\ last.op = "csv"
    /\ \E header \in {FindHeader(NotBlankRows(last.read))} :
          last' = [op               |-> "parse_csv",
                   read             |-> last.read,
                   header_idx       |-> header.idx,
                   mapping          |-> header.mapping,
                   warned           |-> NotBlankRows(last.read) # <<>>
                                        /\ ~HasCritical(header.mapping),
                   raw_transactions |-> ParseCsv(last.read)]
    /\ UNCHANGED <<tabs, cells>>

\* parse_statement on the file, named as a csv.
ParseStatementCsvCall ==
    /\ last.op = "csv"
    /\ \E result \in {ParseStatement([filename |-> sCsvName, content_type |-> <<>>,
                                      read |-> last.read])} :
          last' = [op           |-> "parse_statement",
                   read         |-> last.read,
                   raised       |-> result.raised,
                   transactions |-> result.transactions]
    /\ UNCHANGED <<tabs, cells>>

NextCsv == ParseCsvCall \/ ParseStatementCsvCall

SpecCsv == InitCsv /\ [][NextCsv]_vars

(***************************************************************************)
(* _suggest_category_heuristic over descriptions with keywords of two      *)
(* categories, of one, with a keyword inside a word, in capitals, across   *)
(* two spaces, and with none; and amounts that are negative, positive,     *)
(* zero, a fraction of a hundredth, no number, and none.                   *)
(***************************************************************************)
HeuristicDescriptions ==
    { <<"I","C","A"," ","c","a","f","e">>,
      <<"B","u","s"," ","t","r","a","n","s","f","e","r">>,
      <<"ö","v","e","r","f","ö","r","i","n","g"," ","b","a","n","k">>,
      <<"S","a","l","a","r","y">>,
      <<"T","e","s","l","a">>,
      <<"R","e","d"," "," ","C","r","o","s","s">>,
      <<" ","R","E","N","T"," ">>,
      <<"s","h","o","p","p","i","n","g"," ","t","a","x">>,
      <<"M","i","s","c">>,
      <<"P","a","y">>,
      <<>>,
      None }

HeuristicAmounts ==
    { None, <<"-","4","5",".","0","0">>, <<"1","2",".","5","0">>, <<"0",".","0","0">>, <<"0",".","0","0","1">>, <<"a","b","c">> }

InitHeuristic ==
    /\ tabs = {}
    /\ cells = [t \in {} |-> <<>>]
    /\ \E description \in HeuristicDescriptions, amount \in HeuristicAmounts :
          last = [op |-> "described", description |-> description,
                  amount |-> amount]

SuggestCategoryHeuristicCall ==
    /\ last.op = "described"
    /\ last' = [op          |-> "suggest_category_heuristic",
                description |-> last.description,
                amount      |-> last.amount,
                category    |-> SuggestCategoryHeuristic(last.description,
                                                         last.amount)]
    /\ UNCHANGED <<tabs, cells>>

NextHeuristic == SuggestCategoryHeuristicCall

SpecHeuristic == InitHeuristic /\ [][NextHeuristic]_vars

(***************************************************************************)
(* append_transactions on a store that fails, and the same batch           *)
(* committed again on the store in health: one commit of a batch to an     *)
(* empty spreadsheet, in which the n-th store call raises, then, if it     *)
(* raised, the commit of the same batch with no store call raising.  The   *)
(* items of a batch differ.                                                *)
(***************************************************************************)
RecommitTxs == {txA, txC, txD}

CommitFailing ==
    /\ last.op = "none"
    /\ \E batch \in {b \in BatchesOf(RecommitTxs) : Len(b) = 2 => b[1] # b[2]} :
          \E fuel \in 0..(Len(batch) * CallsPerItem - 1) :
              \E res \in {AppendTransactions(Store, fuel, batch)} :
                  AppendTransactionsDone(batch, res)

CommitAgain ==
    /\ last.op = "append_transactions"
    /\ last.status = "error"
    /\ \E res \in {AppendTransactions(Store, NoFailure, last.batch)} :
          /\ Returned(res)
          /\ last' = [op         |-> "append_transactions again",
                      batch      |-> last.batch,
                      status     |-> res.status,
                      appended   |-> res.appended,
                      duplicates |-> res.duplicates,
                      results    |-> res.results,
                      trace      |-> res.ctx.trace]

NextRecommit == CommitFailing \/ CommitAgain

SpecRecommit == Init /\ [][NextRecommit]_vars

(***************************************************************************)
(* What the transactions of the properties below are compared by: the same *)
(* transaction is the same normalized date, an equivalent amount and a     *)
(* description equal up to letter case and whitespace, on the columns      *)
(* append_transaction writes them to (A date, B description, C amount).    *)
(***************************************************************************)
SameTransaction(row, date_value, amount, description) ==
    /\ Len(row) >= 3
    /\ NormalizeDate(row[1]) = NormalizeDate(date_value)
    /\ Lower(NormalizeText(row[2])) = Lower(NormalizeText(description))
    /\ AmountsMatch(row[3], amount)

\* The rows of a sheet that hold the transaction tx.
RowsHolding(rows, tx) ==
    {i \in 1..Len(rows) :
        SameTransaction(rows[i], tx.date, tx.amount,
                        OrDefault(tx.description, sUnknown))}

\* C1: when a transaction that its month's existing partition did not hold
\* has been appended (status "appended", partition not created by the
\* call), the next append_transaction of the same transaction returns
\* "duplicate" and adds no row (the row count rose by exactly one over the
\* two calls).
C1_SecondAppendIsDuplicate ==
    [][ ( /\ last.op = "append_transaction"
          /\ last.status = "appended"
          /\ ~last.created
          /\ Cardinality(RowsHolding(cells[last.month], last.tx)) = 1
          /\ last'.op = "append_transaction"
          /\ last'.tx = last.tx
          /\ last'.status # "error" )
        => ( /\ last'.status = "duplicate"
             /\ cells' = cells ) ]_vars

\* C2: when append_transactions has completed for a batch, the next
\* append_transactions of the same batch appends no row, reports appended 0
\* and duplicates the number of items, and leaves every partition as it was.
C2_BatchCommitIdempotent ==
    [][ ( /\ last.op = "append_transactions"
          /\ last.status = "ok"
          /\ last'.op = "append_transactions"
          /\ last'.batch = last.batch
          /\ last'.status # "error" )
        => ( /\ last'.appended = 0
             /\ last'.duplicates = Len(last.batch)
             /\ tabs' = tabs
             /\ cells' = cells ) ]_vars

\* C3: is_duplicate returns true exactly when some row of the partition
\* holds the same normalized date, an equivalent amount and a description
\* equal up to letter case and whitespace.
C3_IsDuplicateIffSameTransaction ==
    (last.op = "is_duplicate" /\ last.status = "ok")
    => ( last.result
         <=> \E i \in 1..Len(cells[last.sheet]) :
                 SameTransaction(cells[last.sheet][i], last.date, last.amount,
                                 last.description) )

\* C4 as stated: after the append_transaction that created a partition, a
\* second submission of the same transaction is not suppressed either: no
\* "duplicate" is produced for the first two identical rows.
C4_NewPartitionNeverSuppresses ==
    [][ ( /\ last.op = "append_transaction"
          /\ last.created
          /\ last.status = "appended"
          /\ last'.op = "append_transaction"
          /\ last'.tx = last.tx
          /\ last'.status # "error" )
        => last'.status = "appended" ]_vars

\* The store calls of item k in a trace.
CallsOf(trace, k) == {trace[n][2] : n \in {m \in 1..Len(trace) : trace[m][1] = k}}

\* C4, amended: the call that creates the partition (single, or an item of
\* a batch) never consults is_duplicate and returns "appended"; only that
\* call is exempt.
C4_CreatingCallSkipsCheck ==
    /\ last.op = "append_transaction"
       => /\ last.created => (~last.checked /\ last.status = "appended")
          /\ "addSheet" \in CallsOf(last.trace, 1)
                 => "values.get" \notin CallsOf(last.trace, 1)
    /\ last.op = "append_transactions"
       => \A k \in 1..Len(last.batch) :
              "addSheet" \in CallsOf(last.trace, k)
                  => /\ "values.get" \notin CallsOf(last.trace, k)
                     /\ last.results[k] = "appended"

\* C4, witness: a batch of two identical transactions was submitted to a
\* month without a partition; the first created it, the second was checked.
C4_Witness ==
    /\ last.op = "append_transactions"
    /\ Len(last.batch) = 2
    /\ last.batch[1] = last.batch[2]
    /\ "addSheet" \in CallsOf(last.trace, 1)
    /\ "values.get" \in CallsOf(last.trace, 2)

\* C5: every existing partition has the canonical header row as its first
\* row, and the rows below it are data rows without a gap.
C5_HeaderFirstRowsContiguous ==
    \A t \in tabs :
        /\ Len(cells[t]) >= 1
        /\ cells[t][1] = DEFAULT_HEADERS
        /\ \A i \in 2..Len(cells[t]) : TrimRow(cells[t][i]) # <<>>

\* C6: list_transactions for a month without a partition returns count 0
\* and an empty list, without reading any values; it can only fail in
\* reading the spreadsheet's tab list.
C6_ListOfAbsentPartitionIsEmpty ==
    (last.op = "list_transactions" /\ last.month \notin tabs)
    => /\ "values.get" \notin CallsOf(last.trace, 1)
       /\ last.status = "ok" => (last.count = 0 /\ last.transactions = <<>>)
       /\ last.status = "error" => last.trace = << <<1, "get", "raised">> >>

\* C6, witness: March 2024, which has no partition, was listed.
C6_Witness ==
    /\ last.op = "list_transactions"
    /\ last.args = <<3, 2024, None>>
    /\ last.month \notin tabs
    /\ last.status = "ok"
    /\ last.count = 0

\* A row none of whose date, description, amount and category reads as
\* anything: list_transactions skips it.
IsBlankRow(row) ==
    /\ NormalizeDate(Cell(row, 1)) = <<>>
    /\ Cell(row, 2) = <<>>
    /\ Cell(row, 3) = <<>>
    /\ Cell(row, 4) = <<>>

\* C7: list_transactions of a partition whose first row is the canonical
\* header does not return that row, and counts the non-blank rows below it.
C7_HeaderRowNeverListed ==
    ( /\ last.op = "list_transactions"
      /\ last.status = "ok"
      /\ last.month \in tabs
      /\ cells[last.month] # <<>>
      /\ cells[last.month][1] = DEFAULT_HEADERS )
    => /\ \A k \in 1..Len(last.transactions) : last.transactions[k].row_id # 1
       /\ last.count = Cardinality({i \in 2..Len(cells[last.month]) :
                                       ~IsBlankRow(cells[last.month][i])})

\* Whether the listed transaction t is what row reads as.
ListedFrom(t, row) ==
    /\ t.date = NormalizeDate(Cell(row, 1))
    /\ t.description = Cell(row, 2)
    /\ t.amount = Cell(row, 3)
    /\ t.category = Cell(row, 4)

\* C8: every transaction list_transactions returns carries as row_id the
\* 1-based position of its row in the partition: the row at that position
\* is the one it was read from, the ids ascend, skipped blank rows are not
\* renumbered, and every non-blank row below the first row is returned
\* under its own position (the row under a header row as 2).
C8_RowIdIsPhysicalPosition ==
    ( /\ last.op = "list_transactions"
      /\ last.status = "ok"
      /\ last.month \in tabs )
    => LET rows == cells[last.month]
           txs  == last.transactions
       IN  /\ \A k \in 1..Len(txs) :
                  /\ txs[k].row_id \in 1..Len(rows)
                  /\ ListedFrom(txs[k], rows[txs[k].row_id])
                  /\ k > 1 => txs[k-1].row_id < txs[k].row_id
           /\ \A i \in 2..Len(rows) :
                  ~IsBlankRow(rows[i])
                      => \E k \in 1..Len(txs) : txs[k].row_id = i

\* C8, witness: a partition of a header row, a blank row and a data row was
\* listed, and the data row came back as row 3.
C8_Witness ==
    /\ last.op = "list_transactions"
    /\ last.status = "ok"
    /\ last.month \in tabs
    /\ cells[last.month] = <<DEFAULT_HEADERS, rowBlank, rowA>>
    /\ last.count >= 1
    /\ last.transactions[last.count].row_id = 3
    /\ last.transactions[last.count].description = <<"A"," ","b">>

\* The rows of all partitions that are not a header row put there on
\* creation.
DataRows(c) ==
    LET RECURSIVE Sum(_)
        Sum(S) == IF S = {} THEN 0
                  ELSE LET t == CHOOSE x \in S : TRUE
                       IN  Cardinality({i \in 1..Len(c[t]) :
                                            i > 1 \/ c[t][i] # DEFAULT_HEADERS})
                           + Sum(S \ {t})
    IN  Sum(DOMAIN c)

Count(results, status) == Cardinality({k \in 1..Len(results) : results[k] = status})

\* C9: when no store operation fails, append_transactions takes the items
\* one after another in batch order, every item gets its result, appended
\* and duplicates count the "appended" and "duplicate" results and add up
\* to the number of items, and appended is the number of rows the call
\* added to the store.
C9_BatchCountsAddUp ==
    [][ last'.op = "append_transactions"
        => /\ last'.status = "ok"
           /\ Len(last'.results) = Len(last'.batch)
           /\ last'.appended = Count(last'.results, "appended")
           /\ last'.duplicates = Count(last'.results, "duplicate")
           /\ last'.appended + last'.duplicates = Len(last'.batch)
           /\ last'.appended = DataRows(cells') - DataRows(cells)
           /\ \A k \in 1..Len(last'.batch) : CallsOf(last'.trace, k) # {}
           /\ \A n \in 2..Len(last'.trace) :
                  last'.trace[n-1][1] <= last'.trace[n][1] ]_vars

\* C9, witness: a batch whose first item was a duplicate and whose second
\* item was appended.
C9_Witness ==
    /\ last.op = "append_transactions"
    /\ last.status = "ok"
    /\ last.results = <<"duplicate", "appended">>
    /\ last.appended = 1
    /\ last.duplicates = 1

\* C10: when a store operation fails during append_transactions, the call
\* ends in the error and returns no counts; the operation that failed is
\* the last store operation of the call: it is not retried and no later
\* item is attempted.
C10_FailureIsFatalForBatch ==
    ( /\ last.op = "append_transactions"
      /\ \E n \in 1..Len(last.trace) : last.trace[n][3] = "raised" )
    => /\ last.status = "error"
       /\ last.appended = None /\ last.duplicates = None /\ last.results = None
       /\ \A n \in 1..Len(last.trace) :
              last.trace[n][3] = "raised" => n = Len(last.trace)

\* C10, witness: the first item of a batch of two failed in its append,
\* and the second item was not attempted.
C10_Witness ==
    /\ last.op = "append_transactions"
    /\ Len(last.batch) = 2
    /\ last.status = "error"
    /\ last.trace[Len(last.trace)] = <<1, "values.append", "raised">>
    /\ CallsOf(last.trace, 2) = {}

\* The position of the first entry of a trace with the call and outcome
\* given, 0 when there is none.
FirstAt(trace, call, outcome) ==
    LET at == {n \in 1..Len(trace) : trace[n][2] = call /\ trace[n][3] = outcome}
    IN  IF at = {} THEN 0 ELSE SetMin(at)

\* C11: in an append_transaction that has read the tab list,
\* _ensure_month_sheet makes no store call at all when the month's tab
\* exists, and returns False; when the tab does not exist it adds it and
\* writes the canonical header at its first row; it returns True exactly
\* when it has created the tab, written the header and set the
\* validations; and the header is written before the first data row is
\* appended.
C11_EnsureMonthSheetIdempotent ==
    [][ ( /\ last'.op = "append_transaction"
          /\ FirstAt(last'.trace, "get", "ok") = 1 )
        => LET calls  == CallsOf(last'.trace, 1)
               month  == last'.month
               all_ok == /\ FirstAt(last'.trace, "addSheet", "ok") # 0
                         /\ FirstAt(last'.trace, "update", "ok") # 0
                         /\ FirstAt(last'.trace, "setDataValidation", "ok") # 0
           IN  /\ month \in tabs
                    => /\ ~last'.created
                       /\ calls \cap {"addSheet", "update", "setDataValidation"} = {}
               /\ month \notin tabs => "addSheet" \in calls
               /\ last'.created <=> (month \notin tabs /\ all_ok)
               /\ last'.created
                    => /\ month \in tabs'
                       /\ cells'[month] # <<>>
                       /\ cells'[month][1] = DEFAULT_HEADERS
               /\ (last'.created /\ last'.status = "appended")
                    => /\ FirstAt(last'.trace, "update", "ok")
                              < FirstAt(last'.trace, "values.append", "ok")
                       /\ Len(cells'[month]) = 2 ]_vars

\* C11, witness: an append_transaction found its month's tab and made no
\* call of _ensure_month_sheet, in a store where an earlier call had
\* created that tab with its header.
C11_Witness ==
    /\ last.op = "append_transaction"
    /\ last.status = "appended"
    /\ ~last.created
    /\ CallsOf(last.trace, 1) = {"get", "values.get", "values.append"}
    /\ cells[last.month][1] = DEFAULT_HEADERS
    /\ Len(cells[last.month]) = 3

\* The members of the fixed category list.
FixedCategorySet == {FIXED_CATEGORIES[i] : i \in 1..Len(FIXED_CATEGORIES)}

\* What the claim says of a value: the member it matches without regard
\* to letter case (and to the spaces around it), else the sentinel.
Coerced(value) ==
    LET raw     == IF Truthy(value) THEN Strip(value) ELSE <<>>
        members == {c \in FixedCategorySet : Lower(c) = Lower(raw)}
    IN  IF members = {} THEN UNCATEGORIZED ELSE CHOOSE c \in members : TRUE

\* C12: every row written through ingest_commit holds a member of
\* FIXED_CATEGORIES as its category, and the rows of a commit hold, item by
\* item, the member the item's approved (else suggested) value matches
\* without regard to case, 'Uncategorized' when it matches none or is
\* missing.
C12_CommittedCategoryIsFixed ==
    /\ \A t \in tabs : \A i \in 2..Len(cells[t]) :
           cells[t][i][4] \in FixedCategorySet
    /\ (last.op = "ingest_commit" /\ last.http = 200)
       => LET n    == Len(last.payload)
              rows == cells[mJan]
          IN  /\ last.appended = n
              /\ \A k \in 1..n :
                     rows[Len(rows) - n + k][4]
                         = Coerced(ApprovedOrSuggested(last.payload[k]))

\* C12, witness: a commit of an item approved as 'Food', which is no
\* member, and of an item suggested as 'fees' stored 'Uncategorized' and
\* 'Fees'.
C12_Witness ==
    /\ last.op = "ingest_commit"
    /\ last.http = 200
    /\ Len(last.payload) = 2
    /\ last.payload[1].category_approved = sFood
    /\ last.payload[2].category_suggested = <<"f","e","e","s">>
    /\ cells[mJan][2][4] = UNCATEGORIZED
    /\ cells[mJan][3][4] = <<"F","e","e","s">>

\* C13: every data row lies in the partition labelled with the calendar
\* month (YYYY-MM) of the date it holds, so rows whose dates lie in
\* different months are never in one partition.
C13_RowsLieInTheirMonth ==
    \A t \in tabs : \A i \in 2..Len(cells[t]) :
        LET stored == IngestNormalizeDate(cells[t][i][1])
        IN  stored # None => SubSeq(stored, 1, 7) = t

(***************************************************************************)
(* What a transaction of parse_statement is to carry: a date in the form   *)
(* YYYY-MM-DD that is a day of the calendar, and an amount written with    *)
(* digits, a point and two decimals.                                       *)
(***************************************************************************)
IsIsoDate(text) == Len(text) = 10 /\ FromIsoFormat(text) # NoDate

IsTwoDecimal(text) ==
    LET body == IF Len(text) > 0 /\ text[1] = "-"
                THEN SubSeq(text, 2, Len(text)) ELSE text
    IN  /\ Len(body) >= 4
        /\ body[Len(body) - 2] = "."
        /\ \A i \in 1..Len(body) : i # Len(body) - 2 => IsDigit(body[i])

\* The raw rows whose date and amount both normalize, by their source_row.
Normalizing(raw_transactions) ==
    {k \in 1..Len(raw_transactions) :
        /\ Truthy(IngestNormalizeDate(raw_transactions[k].date))
        /\ IngestNormalizeAmount(raw_transactions[k].amount) # None}

(***************************************************************************)
(* C14: parse_statement does not fail on a row: of the raw rows of a file  *)
(* it returns exactly those whose date and amount both normalize, in the   *)
(* order of the source, each with a valid ISO date and an amount of two    *)
(* decimals, and so no more transactions than there are raw rows.          *)
(***************************************************************************)
C14_ReturnsTheRowsThatNormalize ==
    (last.op = "ingest_preview" /\ last.called /\ last.result.raised = "") =>
        LET raw  == last.result.raw_transactions
            txs  == last.result.transactions
            kept == Normalizing(raw)
        IN  /\ Len(txs) = Cardinality(kept)
            /\ Len(txs) <= Len(raw)
            /\ \A i \in 1..Len(txs) :
                  /\ \E k \in kept :
                        /\ txs[i].source_row = raw[k].source_row
                        /\ Cardinality({j \in kept : j < k}) = i - 1
                  /\ IsIsoDate(txs[i].date)
                  /\ IsTwoDecimal(txs[i].amount)

(***************************************************************************)
(* C15: a parse that fails as a whole is reported: when no raw row is      *)
(* extracted from the file, or the detected type of the file is not        *)
(* supported, parse_statement raises, and ingest_preview rejects the call  *)
(* with a reason, instead of answering with an empty list of transactions. *)
(***************************************************************************)
C15_TotalFailureIsReported ==
    (/\ last.op = "ingest_preview"
     /\ last.called
     /\ \/ last.result.raw_transactions = <<>>
        \/ DetectType(last.file.filename, last.file.content_type) # "csv") =>
        /\ last.result.raised # ""
        /\ last.http = 400
        /\ last.detail # ""

(***************************************************************************)
(* C16: every transaction parse_statement produces has needs_review true   *)
(* exactly when its category_suggested is the sentinel 'Uncategorized'.    *)
(***************************************************************************)
C16_NeedsReviewIffUncategorized ==
    (last.op = "ingest_preview" /\ last.called) =>
        \A i \in 1..Len(last.result.transactions) :
            LET tx == last.result.transactions[i]
            IN  tx.needs_review <=>
                    tx.category_suggested =
                        <<"U","n","c","a","t","e","g","o","r","i","z","e","d">>

\* One statement yields a transaction sent to review and one that is not.
C16_Witness ==
    /\ last.op = "ingest_preview"
    /\ last.called
    /\ \E i, j \in 1..Len(last.result.transactions) :
          /\ last.result.transactions[i].needs_review
          /\ last.result.transactions[i].category_suggested = UNCATEGORIZED
          /\ ~last.result.transactions[j].needs_review
          /\ last.result.transactions[j].category_suggested = sIncome

(***************************************************************************)
(* The type the extension of a name stands for, "none" when the name is    *)
(* absent or does not end in .csv, .xlsx, .xlsm or .pdf in either case;    *)
(* and the type a declared content type stands for.                        *)
(***************************************************************************)
ExtensionType(filename) ==
    IF filename = None THEN "none"
    ELSE IF EndsWith(Lower(filename), <<".","c","s","v">>) THEN "csv"
    ELSE IF EndsWith(Lower(filename), <<".","x","l","s","x">>) THEN "xlsx"
    ELSE IF EndsWith(Lower(filename), <<".","x","l","s","m">>) THEN "xlsx"
    ELSE IF EndsWith(Lower(filename), <<".","p","d","f">>) THEN "pdf"
    ELSE "none"

DeclaredType(content_type) == DetectType(None, content_type)

(***************************************************************************)
(* C17: format detection gives the extension of the file name priority     *)
(* over the declared content type: a recognized extension decides whatever *)
(* the content type; the content type decides only when the name is absent *)
(* or has no recognized extension; when neither decides, the type is csv.  *)
(***************************************************************************)
C17_ExtensionBeforeContentType ==
    last.op = "detect_type" =>
        /\ ExtensionType(last.filename) # "none" =>
               last.type = ExtensionType(last.filename)
        /\ ExtensionType(last.filename) = "none" =>
               last.type = DeclaredType(last.content_type)
        /\ (/\ ExtensionType(last.filename) = "none"
            /\ last.content_type \in {None, <<>>,
                                      <<"t","e","x","t","/","p","l","a","i","n">>}) =>
               last.type = "csv"

\* A name that ends in .pdf is uploaded under a declared type of csv.
C17_Witness ==
    /\ last.op = "detect_type"
    /\ last.filename = sPdfName
    /\ last.content_type = sCsvType
    /\ last.type = "pdf"

(***************************************************************************)
(* The members of the fixed list an answer of the oracle matches: those    *)
(* equal to it without regard to case, the white space and the periods     *)
(* around the answer set aside.                                            *)
(***************************************************************************)
MatchedBy(text) ==
    IF text \in {None, <<>>} THEN {}
    ELSE {c \in FixedCategorySet :
             Lower(c) = Lower(Strip(StripDots(Strip(text))))}

OracleAnswers(mode, oracle) ==
    /\ Lower(mode) = <<"m","o","d","e","l">>
    /\ oracle.does = "answers"
    /\ MatchedBy(oracle.text) # {}

(***************************************************************************)
(* C18: suggest_category never raises, and its tiers are ordered: it       *)
(* returns the oracle's answer only when the oracle is enabled, answers    *)
(* without error, and the answer matches a member of the fixed list        *)
(* without regard to case; in every other case (oracle disabled, an        *)
(* exception, an empty answer or one that matches nothing) it returns      *)
(* exactly what the heuristic returns.                                     *)
(***************************************************************************)
C18_OracleThenHeuristic ==
    last.op = "suggest_category" =>
        /\ ~last.raised
        /\ IF OracleAnswers(last.mode, last.oracle)
           THEN last.category \in MatchedBy(last.oracle.text)
           ELSE last.category =
                    SuggestCategoryHeuristic(last.description, last.amount)

\* The oracle answers 'FEES' for a description the heuristic puts under
\* Groceries, and the category is Fees; and the same description with an
\* oracle that raises would be Groceries.
C18_Witness ==
    /\ last.op = "suggest_category"
    /\ last.oracle = [does |-> "answers", text |-> <<"F","E","E","S">>]
    /\ last.category = <<"F","e","e","s">>
    /\ SuggestCategoryHeuristic(last.description, last.amount)
           = <<"G","r","o","c","e","r","i","e","s">>

(***************************************************************************)
(* A statement with debit and credit columns: the header that names the    *)
(* date, the description, the debit and the credit, then rows of four      *)
(* cells.  The hundredths of a cell, zero for a blank one.                 *)
(***************************************************************************)
IsDebitCreditStatement(read) ==
    /\ Len(read) >= 2
    /\ read[1] = hDebitCredit
    /\ \A k \in 2..Len(read) : read[k] \in {rDebit, rCredit, rNeither}

Hundredths(cell) ==
    IF NormalizeAmount(cell) = NoAmount THEN 0 ELSE NormalizeAmount(cell)[1]

(***************************************************************************)
(* C19: under a header that maps debit and credit columns and no amount    *)
(* column, the amount of a row is its credit minus its debit, a missing    *)
(* side counting as zero (debit '100,00' with an empty credit is -100.00), *)
(* and a row whose debit and credit are both blank has no amount and is    *)
(* not among the transactions.                                             *)
(***************************************************************************)
C19_AmountIsCreditMinusDebit ==
    (/\ last.op = "ingest_preview"
     /\ last.called
     /\ last.result.raised = ""
     /\ IsDebitCreditStatement(last.file.read)) =>
        LET read   == last.file.read
            txs    == last.result.transactions
            filled == {k \in 2..Len(read) :
                          ~IsBlankCell(read[k][3]) \/ ~IsBlankCell(read[k][4])}
        IN  /\ {txs[i].source_row : i \in 1..Len(txs)} = filled
            /\ \A i \in 1..Len(txs) :
                  \A k \in filled :
                      txs[i].source_row = k =>
                          Hundredths(txs[i].amount)
                              = Hundredths(read[k][4]) - Hundredths(read[k][3])

(***************************************************************************)
(* C20: normalize_amount is idempotent: for every text that is a valid     *)
(* decimal in the style 1.234,56 or 1,234.56, normalizing the canonical    *)
(* output returns that same output; and the ledger's _normalize_amount     *)
(* reads the canonical output as the value it reads the text as.           *)
(***************************************************************************)
C20_NormalizeAmountIdempotent ==
    (last.op = "normalize_amount" /\ last.canonical # None) =>
        /\ last.again = last.canonical
        /\ IsTwoDecimal(last.canonical) =>
               NormalizeAmount(last.canonical) = NormalizeAmount(last.value)

\* An amount with both separators has been normalized, and normalized
\* again.
C20_Witness ==
    /\ last.op = "normalize_amount"
    /\ last.value = <<"1",",","2","3","4",".","5","6">>
    /\ last.canonical = <<"1","2","3","4",".","5","6">>
    /\ last.again = <<"1","2","3","4",".","5","6">>

(***************************************************************************)
(* An amount as the ledger's callers write it: an optional sign, digits,   *)
(* and at most one comma or point followed by up to three digits, with     *)
(* spaces between the thousands or around it.  Its value in thousandths.   *)
(***************************************************************************)
DecimalParts(text) ==
    LET s      == Remove(text, " ")
        signed == Len(s) > 0 /\ s[1] = "-"
        body   == IF signed THEN SubSeq(s, 2, Len(s)) ELSE s
        seps   == {i \in 1..Len(body) : body[i] \in {",", "."}}
        cut    == IF seps = {} THEN Len(body) + 1 ELSE SetMin(seps)
    IN  [signed |-> signed, seps |-> Cardinality(seps),
         whole  |-> SubSeq(body, 1, cut - 1),
         frac   |-> SubSeq(body, cut + 1, Len(body))]

IsDecimalText(text) ==
    /\ text # None
    /\ LET p == DecimalParts(text)
       IN  /\ p.seps <= 1
           /\ AllDigits(p.whole)
           /\ Len(p.frac) <= 3
           /\ \A i \in 1..Len(p.frac) : IsDigit(p.frac[i])

Thousandths(text) ==
    LET p   == DecimalParts(text)
        mag == 1000 * NumVal(p.whole)
               + NumVal(SubSeq(p.frac \o <<"0","0","0">>, 1, 3))
    IN  IF p.signed THEN 0 - mag ELSE mag

(***************************************************************************)
(* C21: _amounts_match is true for every two amounts that denote the same  *)
(* value and differ only in how they are written (spaces between the       *)
(* thousands, a comma or a point before the decimals, as in '1200.50' and  *)
(* '1 200,50'); and when either side is no decimal, the result is whether  *)
(* the two texts are equal without regard to case and white space.         *)
(***************************************************************************)
C21_SeparatorsDoNotMatter ==
    last.op = "amounts_match" =>
        IF IsDecimalText(last.left) /\ IsDecimalText(last.right)
        THEN Thousandths(last.left) = Thousandths(last.right) => last.match
        ELSE last.match <=>
                 Lower(NormalizeText(last.left)) = Lower(NormalizeText(last.right))

(***************************************************************************)
(* The tokens of a line of extracted text, white space between them: the   *)
(* token that is a date, and the tokens that are amounts.                  *)
(***************************************************************************)
TokensOf(line) ==
    IF Strip(line) = <<>> THEN <<>> ELSE SplitOn(JoinSplit(Strip(line)), " ")

IsDateToken(token) == Len(token) = 10 /\ DateAt(token, 1)

IsAmountToken(token) ==
    /\ ~IsDateToken(token)
    /\ IsTwoDecimal(Str(IngestNormalizeAmount(token)))

AmountTokens(line) ==
    {i \in 1..Len(TokensOf(line)) : IsAmountToken(TokensOf(line)[i])}

HasDateToken(line) ==
    \E i \in 1..Len(TokensOf(line)) : IsDateToken(TokensOf(line)[i])

\* The line and the amount of each transaction that came out of the text.
AmountsByLine ==
    IF last.op = "parse_statement"
    THEN {<<last.transactions[i].source_row, last.transactions[i].amount>> :
            i \in 1..Len(last.transactions)}
    ELSE {<<last.raw_transactions[i].source_row,
            IngestNormalizeAmount(last.raw_transactions[i].amount)>> :
            i \in 1..Len(last.raw_transactions)}

(***************************************************************************)
(* C22: when a statement of extracted text is ingested, a line with a date *)
(* and amount tokens (a running balance and the amount) yields a           *)
(* transaction whose amount is the rightmost amount token of the line, and *)
(* a line without a date token or without any amount token yields none.    *)
(***************************************************************************)
C22_RightmostAmountOfTheLine ==
    last.op \in {"parse_statement", "parse_pdf"} =>
        \A k \in 1..Len(last.file.lines) :
            LET line == last.file.lines[k]
                of_k == {a \in AmountsByLine : a[1] = k}
            IN  IF HasDateToken(line) /\ AmountTokens(line) # {}
                THEN of_k =
                        {<<k, IngestNormalizeAmount(
                                TokensOf(line)[SetMax(AmountTokens(line))])>>}
                ELSE of_k = {}

\* The transactions that need a category: filed under none, or under
\* 'Uncategorized' in any case and spacing.
NeedsCategory(transaction) ==
    Lower(NormalizeText(transaction.category)) \in {<<>>, Lower(UNCATEGORIZED)}

(***************************************************************************)
(* C23: list_uncategorized_transactions returns exactly the transactions   *)
(* of the month's list_transactions result whose category is empty or      *)
(* 'Uncategorized' (whatever the case and the white space), in the same    *)
(* order, and count is the number of transactions returned.                *)
(***************************************************************************)
C23_ListsTheUncategorized ==
    last.op = "list_uncategorized_transactions" =>
        LET listed == ListTransactions(Store, NoFailure, last.args[1],
                                       last.args[2], last.args[3])
        IN  /\ last.raised = ""
            /\ last.transactions = SelectSeq(listed.transactions, NeedsCategory)
            /\ last.count = Len(last.transactions)

(***************************************************************************)
(* Two callers in append_transaction: both calls have returned; where in   *)
(* the log a caller's store call is (0: it made none); how many rows of a  *)
(* tab are a given row.                                                    *)
(***************************************************************************)
BothReturned ==
    /\ last.op = "append_transaction by two"
    /\ \A c \in Callers : last.calls[c].pc = "done"

LogPosition(c, call) ==
    LET at == {i \in 1..Len(last.log) : last.log[i][1] = c /\ last.log[i][2] = call}
    IN  IF at = {} THEN 0 ELSE SetMin(at)

CopiesOf(row, title) ==
    IF title \in tabs
    THEN Cardinality({i \in 1..Len(cells[title]) : cells[title][i] = row})
    ELSE 0

\* Both duplicate-check reads were served, and found nothing, before either
\* append.
BothReadsPrecedeBothAppends ==
    \A c \in Callers, d \in Callers :
        /\ LogPosition(c, "values.get") > 0
        /\ last.log[LogPosition(c, "values.get")][3] = "absent"
        /\ LogPosition(d, "values.append") > LogPosition(c, "values.get")

(***************************************************************************)
(* C24: the duplicate check and the append are not one step: two callers   *)
(* in append_transaction for the same transaction on the same existing     *)
(* partition can both read before either appends, and whenever they do,    *)
(* both calls return 'appended' and the partition ends with two identical  *)
(* rows (with more where the row was there before and went unrecognized).  *)
(***************************************************************************)
C24_CheckThenActRace ==
    (/\ BothReturned
     /\ last.calls[1].tx = last.calls[2].tx
     /\ BothReadsPrecedeBothAppends)
    => /\ \A c \in Callers : last.calls[c].status = "appended"
       /\ CopiesOf(last.calls[1].row, last.calls[1].month_name) >= 2

\* The interleaving: both reads, then both appends, of one transaction.
C24_Witness ==
    /\ BothReturned
    /\ last.calls[1].tx = last.calls[2].tx
    /\ last.calls[1].tx = txC
    /\ BothReadsPrecedeBothAppends
    /\ \A c \in Callers : last.calls[c].status = "appended"
    /\ CopiesOf(last.calls[1].row, last.calls[1].month_name) = 2

(***************************************************************************)
(* C29: no acknowledged append is lost under concurrent creation of the    *)
(* partition: two callers in append_transaction for a month whose tab does *)
(* not exist yet; in every interleaving, once both calls have returned,    *)
(* the row of each call that returned 'appended' is in the tab (the header *)
(* write of one caller at the first row never overwrites the row the other *)
(* appended).  The tab did not exist where a caller came to write its      *)
(* header; rows that are equal are counted.                                *)
(***************************************************************************)
C29_NoAcknowledgedAppendLost ==
    (/\ BothReturned
     /\ \E c \in Callers : LogPosition(c, "update") > 0)
    => \A c \in Callers :
          last.calls[c].status = "appended" =>
              CopiesOf(last.calls[c].row, last.calls[c].month_name)
                  >= Cardinality({d \in Callers :
                                    /\ last.calls[d].status = "appended"
                                    /\ last.calls[d].row = last.calls[c].row})

\* The rows of a tab before a call are the first rows of the tab after it.
StartsWith(later, earlier) ==
    /\ Len(earlier) <= Len(later)
    /\ SubSeq(later, 1, Len(earlier)) = earlier

(***************************************************************************)
(* C25: the ledger only grows.  Over sequential calls of the core, whether *)
(* or not a store call fails: a tab that exists stays; the rows a tab had  *)
(* before a call are, unchanged and in order, the first rows it has after  *)
(* the call; and a tab that a call created and returned from starts with   *)
(* the header row and holds the call's row.                                *)
(***************************************************************************)
C25_LedgerOnlyGrows ==
    [][/\ tabs \subseteq tabs'
       /\ \A t \in tabs : StartsWith(cells'[t], cells[t])
       /\ \A t \in tabs' \ tabs :
             last'.status # "error" =>
                 /\ Len(cells'[t]) >= 2
                 /\ cells'[t][1] = DEFAULT_HEADERS]_vars

\* A call has appended a row to a tab that held rows before it.
C25_Witness ==
    /\ last.op = "append_transaction"
    /\ last.status = "appended"
    /\ ~last.created
    /\ Len(cells[last.month]) >= 3

(***************************************************************************)
(* The header row of a file: the position, from 1, of the first of its     *)
(* first 20 rows in which the alias table maps date, amount and            *)
(* description; 0 when there is none.                                      *)
(***************************************************************************)
HeaderPosition(rows) ==
    LET maps == {i \in 1..Len(rows) :
                    /\ i <= 20
                    /\ {"date", "amount", "description"} \subseteq DOMAIN HeaderMap(rows[i])}
    IN  IF maps = {} THEN 0 ELSE SetMin(maps)

(***************************************************************************)
(* C26: the header search selects the first row, among the first 20 rows   *)
(* of the file, in which date, amount and description are all mapped; that *)
(* row and the rows before it are no data: the raw rows are the rows after *)
(* it, one each and in order, so each has a source_row greater than the    *)
(* position of the header row.                                             *)
(***************************************************************************)
C26_HeaderAndRowsBeforeExcluded ==
    last.op = "parse_csv" =>
        LET rows == NotBlankRows(last.read)
            h    == HeaderPosition(rows)
        IN  h > 0 =>
              /\ last.header_idx + 1 = h
              /\ last.mapping = HeaderMap(rows[h])
              /\ Len(last.raw_transactions) = Len(rows) - h
              /\ \A k \in 1..Len(last.raw_transactions) :
                    last.raw_transactions[k].source_row = h + k

\* The header is the last row of the search, after rows of preamble, and a
\* row follows it.
C26_Witness ==
    /\ last.op = "parse_csv"
    /\ HeaderPosition(NotBlankRows(last.read)) = 20
    /\ Len(last.raw_transactions) = 1
    /\ last.raw_transactions[1].source_row = 21

\* What the code reads of a row when it has no header: the cells by
\* position.
ByPosition(row, source_row) ==
    [date        |-> IF Len(row) > 0 THEN row[1] ELSE None,
     description |-> IF Len(row) > 1 THEN row[2] ELSE None,
     amount      |-> IF Len(row) > 2 THEN row[3] ELSE None,
     currency    |-> IF Len(row) > 3 THEN row[4] ELSE None,
     source_row  |-> source_row]

\* No row among the first 20 rows of the file maps date, amount and
\* description.
NoHeaderFound == HeaderPosition(NotBlankRows(last.read)) = 0

Occurs(keyword, text) ==
    \E at \in 0..(Len(text) - Len(keyword)) :
        \A i \in 1..Len(keyword) : text[at + i] = keyword[i]

HintedAt(description) ==
    LET text == IF description = None THEN <<>>
                ELSE Lower(JoinSplit(Strip(description)))
    IN  {c \in 1..Len(CATEGORY_HINTS) :
            \E k \in 1..Len(CATEGORY_HINTS[c][2]) :
                Occurs(CATEGORY_HINTS[c][2][k], text)}

IsAboveZero(amount) ==
    /\ amount # None
    /\ amount # <<>>
    /\ IsDecimalText(amount)
    /\ ~Contains(amount, ",")
    /\ DecimalParts(amount).whole \o DecimalParts(amount).frac # <<>>
    /\ ~DecimalParts(amount).signed
    /\ \E i \in 1..Len(amount) : amount[i] \in {"1","2","3","4","5","6","7","8","9"}

(***************************************************************************)
(* C28: the heuristic classifier resolves by table order: its result is    *)
(* the earliest category of the keyword table with a keyword occurring in  *)
(* the lowercased description; only when no keyword of any category occurs *)
(* is a positive amount classified 'Income', and otherwise the result is   *)
(* 'Uncategorized'.  The result is always a member of the fixed category   *)
(* set.                                                                    *)
(***************************************************************************)
C28_HeuristicByTableOrder ==
    last.op = "suggest_category_heuristic" =>
        /\ last.category =
              (IF HintedAt(last.description) # {}
               THEN CATEGORY_HINTS[SetMin(HintedAt(last.description))][1]
               ELSE IF IsAboveZero(last.amount) THEN sIncome
               ELSE UNCATEGORIZED)
        /\ last.category \in FixedCategorySet

\* A description with keywords of two categories, classified as the one
\* that comes first in the table, whatever the amount.
C28_Witness ==
    /\ last.op = "suggest_category_heuristic"
    /\ Cardinality(HintedAt(last.description)) >= 2
    /\ IsAboveZero(last.amount)
    /\ last.category = CATEGORY_HINTS[SetMin(HintedAt(last.description))][1]
    /\ last.category # sIncome

(***************************************************************************)
(* A batch and the store: the items whose append was served in the call    *)
(* just made; the item at which the call raised; and how many rows of the  *)
(* ledger are the row of an item.                                          *)
(***************************************************************************)
AppendedItems ==
    {i \in 1..Len(last.batch) :
        \E e \in 1..Len(last.trace) :
            last.trace[e] = <<i, "values.append", "ok">>}

FailedItem == last.trace[Len(last.trace)][1]

RowsOf(tx) == CopiesOf(NewCall(tx).row, NewCall(tx).month_name)

(***************************************************************************)
(* C30: a batch commit is not atomic and has no rollback: when             *)
(* append_transactions fails on item k, the rows appended for items 1 to   *)
(* k-1 remain in the store and no row of items k to n is written; and a    *)
(* later commit of the same batch, the store in health, leaves each item   *)
(* of the batch in the ledger exactly once.                                *)
(***************************************************************************)
C30_NoRollbackAndRecommitOnce ==
    /\ (last.op = "append_transactions" /\ last.status = "error") =>
          /\ \A i \in AppendedItems : i < FailedItem
          /\ \A i \in 1..Len(last.batch) :
                RowsOf(last.batch[i]) =
                    Cardinality({j \in AppendedItems : last.batch[j] = last.batch[i]})
    /\ last.op = "append_transactions again" =>
          /\ last.status = "ok"
          /\ \A i \in 1..Len(last.batch) : RowsOf(last.batch[i]) = 1

====
